---- MODULE Spec2Model ----
(***************************************************************************)
(* Model of the realtime command/event bridge of tauri-plugin-mcp-bridge   *)
(* (src/packages/tauri-plugin-mcp-bridge/src/websocket.rs).                *)
(*                                                                         *)
(* Every accepted connection runs handle_connection: an inbound reader     *)
(* loop that dispatches one request at a time, and a spawned send task     *)
(* that merges the shared tokio broadcast channel with the connection's    *)
(* own unbounded response channel into the outgoing WebSocket stream.      *)
(*                                                                         *)
(* dispatch_command routes each request to a handler that works on the     *)
(* state shared by all connections: the IPC monitor                        *)
(* (src/.../commands/ipc_monitor.rs), the script registry and the DOM of   *)
(* the webview windows into which scripts are injected.                    *)
(*                                                                         *)
(* Spec explores the connections and the broadcast channel, MonSpec the    *)
(* IPC monitor as the webview invokes it, MonBridgeSpec the IPC monitor as *)
(* a connection reaches it, RegSpec the script registry, DomSpec the       *)
(* registry together with the documents of two windows, ReplaySpec the     *)
(* replay on page load, HostSpec window resolution and the proxied host    *)
(* operations, ShotSpec the screenshot pipeline                            *)
(* (src/.../screenshot/mod.rs), LagSpec the send task of one connection    *)
(* that is overrun by the broadcasts, and ConcSpec and ConcDomSpec the     *)
(* handlers of two connections that run statement by statement: on the IPC *)
(* monitor and on the script registry.  All of them share the variables,   *)
(* the initial state and the actions.                                      *)
(***************************************************************************)
EXTENDS Integers, Sequences, FiniteSets, TLC

\* ------------------------------------------------------------------ bounds
\* Frames the peers send, over all connections.
MaxFrames == 2
\* Capacity of the broadcast channel (messages retained for slow receivers).
Capacity == 1
\* Messages the broadcast producers send: enough to overrun a receiver.
MaxBroadcasts == Capacity + 1

\* IPC events the monitor holds at most.
MaxEvents == 2

\* Largest width and height of a captured image, in pixels.
MaxDim == 5

\* The peers that connect, named in the order in which their handshakes end.
ConnOrder == <<"c1", "c2">>
Conns == {ConnOrder[i] : i \in DOMAIN ConnOrder}

\* ------------------------------------------------------------- wire frames
\* NoId stands for a JSON value without a string "id".
NoId == "<none>"

\* Message::Text frames that parse as JSON: a request for a command of the
\* dispatch table, and one for a command that is not in it and has no id.
RequestFrames ==
    {[kind |-> "text", json |-> TRUE, id |-> "a", command |-> "get_scripts"],
     [kind |-> "text", json |-> TRUE, id |-> NoId, command |-> "bogus"]}
\* A Message::Text frame that serde_json::from_str rejects.
BadTextFrame == [kind |-> "text", json |-> FALSE, id |-> NoId, command |-> ""]
\* Message::Close, a transport Err, the end of the stream, and any other
\* message (binary, ping, pong).
CloseFrame == [kind |-> "close", json |-> FALSE, id |-> NoId, command |-> ""]
ErrorFrame == [kind |-> "error", json |-> FALSE, id |-> NoId, command |-> ""]
EofFrame   == [kind |-> "eof",   json |-> FALSE, id |-> NoId, command |-> ""]
OtherFrame == [kind |-> "other", json |-> FALSE, id |-> NoId, command |-> ""]

Frames == RequestFrames \cup
          {BadTextFrame, CloseFrame, ErrorFrame, EofFrame, OtherFrame}

\* A JSON object is a record; Value::get(key) is Some when the key is there.
Has(o, k) == k \in DOMAIN o

\* Requests that proxy the IPC monitor commands.
InvokeFrame(id, tauri_cmd) ==
    [kind |-> "text", json |-> TRUE, id |-> id, command |-> "invoke_tauri",
     args |-> [command |-> tauri_cmd]]

MonFrames ==
    {InvokeFrame("m1", "plugin:mcp-bridge|start_ipc_monitor"),
     InvokeFrame("m2", "plugin:mcp-bridge|stop_ipc_monitor"),
     InvokeFrame("m3", "plugin:mcp-bridge|get_ipc_events")}

\* Script ids are sequences of characters: a plain one, and one that holds
\* two backslashes.  The letters used are neither hexadecimal digits nor
\* escape letters of JavaScript.
PlainId == <<"s">>
EscId == <<"\\", "\\", "s">>
ScriptIds == {PlainId, EscId}

RegisterFrame(id, script_id, type, content) ==
    [kind |-> "text", json |-> TRUE, id |-> id, command |-> "register_script",
     args |-> [id |-> script_id, type |-> type, content |-> content]]

\* Requests on the script registry, and one for an unknown command.
RegFrames ==
    {RegisterFrame("r1", PlainId, "inline", "v1"),
     RegisterFrame("r2", PlainId, "url", "v2"),
     RegisterFrame("r3", EscId, "inline", "v1"),
     [kind |-> "text", json |-> TRUE, id |-> "a", command |-> "get_scripts"],
     [kind |-> "text", json |-> TRUE, id |-> "b", command |-> "bogus"]}

\* Requests that run a script in a window, with and without a label, and
\* requests that proxy host operations: one on the allow-list, one that is
\* not, one without the nested command and one without args.
HostFrames ==
    {[kind |-> "text", json |-> TRUE, id |-> "x1", command |-> "execute_js",
      args |-> [script |-> "1+1"]],
     [kind |-> "text", json |-> TRUE, id |-> "x2", command |-> "execute_js",
      args |-> [script |-> "1+1", windowLabel |-> "aux"]],
     InvokeFrame("i1", "plugin:mcp-bridge|get_backend_state"),
     InvokeFrame("i2", "plugin:mcp-bridge|register_script"),
     [kind |-> "text", json |-> TRUE, id |-> "i3", command |-> "invoke_tauri",
      args |-> [args |-> "x"]],
     [kind |-> "text", json |-> TRUE, id |-> "i4",
      command |-> "invoke_tauri"]}

\* A second plain script id.
OtherId == <<"t">>

RemoveFrame(id, script_id) ==
    [kind |-> "text", json |-> TRUE, id |-> id, command |-> "remove_script",
     args |-> [id |-> script_id]]

\* Requests on the script registry and the documents of two windows.
DomFrames ==
    {RegisterFrame("d1", PlainId, "inline", "v1"),
     RegisterFrame("d2", PlainId, "url", "v2"),
     [kind |-> "text", json |-> TRUE, id |-> "d3",
      command |-> "register_script",
      args |-> [id |-> OtherId, type |-> "inline", content |-> "v3",
                windowLabel |-> "aux"]],
     RemoveFrame("d4", PlainId),
     [kind |-> "text", json |-> TRUE, id |-> "d5",
      command |-> "clear_scripts"],
     [kind |-> "text", json |-> TRUE, id |-> "d6", command |-> "get_scripts"]}

\* The registrations among them.
ReplayFrames == {f \in DomFrames : f.command = "register_script"}

\* What a screenshot call is given and what it finds: the format and the
\* maxWidth of the call, the value of TAURI_MCP_SCREENSHOT_MAX_WIDTH, what
\* the platform captured and whether the encoders work.
NoCall ==
    [format |-> [some |-> FALSE, val |-> ""],
     max_width |-> [some |-> FALSE, val |-> 0],
     envv |-> [set |-> FALSE, val |-> <<>>],
     captured |-> [ok |-> FALSE, data |-> [fmt |-> "bad", width |-> 0,
                                           height |-> 0]],
     pngOk |-> TRUE, jpegOk |-> TRUE]

\* Values of the environment variable: unset, numbers, and strings that
\* are no numbers.
EnvValues ==
    {[set |-> FALSE, val |-> <<>>]} \cup
    {[set |-> TRUE, val |-> v] :
        v \in {<<"2">>, <<"+", "4">>, <<>>, <<"-", "2">>, <<"2", "x">>}}

\* Widths and heights of the captured images, and the widths asked for.
Dims == 1..MaxDim

\* What the platform's capture returns: a PNG image, bytes that are no
\* image, or an error.
Captures ==
    {[ok |-> TRUE, data |-> [fmt |-> "png", width |-> w, height |-> h]] :
        w \in Dims, h \in Dims} \cup
    {[ok |-> TRUE, data |-> [fmt |-> "bad", width |-> 0, height |-> 0]],
     [ok |-> FALSE, data |-> [fmt |-> "bad", width |-> 0, height |-> 0]]}

\* Labels the webview windows can have; NoLabel stands for no label given.
WindowLabels == {"main", "aux"}
NoLabel == "<any>"

\* Command names reported to the monitor, as sequences of parts: commands
\* of the application, two of the monitor's own, and a command of the
\* application whose name has the name of one of the monitor's inside it.
ControlCommands ==
    {"report_ipc_event", "start_ipc_monitor", "stop_ipc_monitor",
     "get_ipc_events"}
ReportedCommands ==
    {<<"greet">>, <<"add_numbers">>, <<"start_ipc_monitor">>,
     <<"plugin:mcp-bridge|", "get_ipc_events">>,
     <<"app_", "get_ipc_events", "_count">>}

\* ------------------------------------------------------------------- state
VARIABLES
    listening, \* WebSocketServer::start is in its accept loop
    rpc,       \* handle_connection of each peer: "new", "open", "done"
    inflight,  \* requests of each connection whose dispatch is being awaited
    respq,     \* per-connection response channel (mpsc::unbounded_channel)
    wpc,       \* send task: "none", "select", "ended", "aborted"
    evOff,     \* broadcast branch disabled for the current select!
    cursor,    \* broadcast receiver: channel positions consumed or skipped
    chan,      \* messages stored in the broadcast channel, by position
    nsent,     \* messages the producers have sent so far
    subAt,     \* history: messages already sent when each receiver subscribed
    lagged,    \* history: the receiver has overrun its backlog
    nread,     \* history: frames read so far, over all connections
    rlog,      \* history: frames read on each connection, before its end
    outR,      \* history: responses written to each connection's peer
    outE,      \* history: broadcasts written to each connection's peer
    windows,   \* labels of the live webview windows
    monitor,   \* IPCMonitorState: [enabled, events]
    hook,      \* windows whose JS-side IPC interception is switched on
    monPoisoned, \* the IPCMonitorState mutex is poisoned
    regPoisoned, \* the SharedScriptRegistry mutex is poisoned
    registry,  \* ScriptRegistry: the entries in registry order
    dom,       \* script elements in document.head of each window
    ret        \* what the last Tauri command invoked by a webview returned

\* The state the command handlers work on.
appvars == <<windows, monitor, hook, monPoisoned, regPoisoned, registry, dom>>

vars == <<listening, rpc, inflight, respq, wpc, evOff, cursor, chan, nsent,
          subAt, lagged, nread, rlog, outR, outE, appvars, ret>>

\* ----------------------------------------------------------------- helpers
\* dispatch_command: id = command.get("id").and_then(as_str).unwrap_or("")
IdOf(f) == IF f.id = NoId THEN "" ELSE f.id

\* A response without windowContext.
NoContext == [windowLabel |-> NoLabel, totalWindows |-> 0, warning |-> FALSE]

\* Responses: data is a sequence of records.
success_response(id, data) ==
    [id |-> id, success |-> TRUE, error |-> "", data |-> data,
     windowContext |-> NoContext]

error_response(id, error) ==
    [id |-> id, success |-> FALSE, error |-> error, data |-> <<>>,
     windowContext |-> NoContext]

\* A response on its way to the peer, tagged with the connection and the
\* position of its request in that connection's input.  A broadcast is
\* represented by its number in sending order.
RespMsg(c, idx, r) == [src |-> c, idx |-> idx, body |-> r]

\* A send task that still holds its broadcast receiver and response receiver.
WriterAlive(c) == wpc[c] = "select"

\* broadcast::Sender::receiver_count
Receivers == {c \in Conns : WriterAlive(c)}

\* Position of the oldest message the channel still retains.
OldestRetained == IF Len(chan) > Capacity THEN Len(chan) - Capacity ELSE 0


\* ------------------------------------------------------------- IPC monitor
\* IPCMonitorState::start, stop, add_event and get_events.
Monitor_start(mon) == [enabled |-> TRUE, events |-> <<>>]

Monitor_stop(mon) == [mon EXCEPT !.enabled = FALSE]

Monitor_add_event(mon, event) ==
    IF mon.enabled THEN [mon EXCEPT !.events = Append(@, event)] ELSE mon

Monitor_get_events(mon) == mon.events

\* Result<_, String> of a Tauri command.
CmdOk(data) == [ok |-> TRUE, err |-> "", data |-> data]
CmdErr(e) == [ok |-> FALSE, err |-> e, data |-> <<>>]

\* monitor.lock().map_err(|e| format!("Lock error: {e}")) on a poisoned mutex.
LockError == "Lock error: poisoned lock: another task failed inside"

\* str::contains, for a name given by its parts.
contains(name, pat) == \E i \in DOMAIN name : name[i] = pat

\* A test that forgets one of the monitor's own commands.
IsOwnCommand_partial(command) ==
    \/ contains(command, "report_ipc_event")
    \/ contains(command, "stop_ipc_monitor")
    \/ contains(command, "get_ipc_events")

\* report_ipc_event: the test that skips the monitor's own commands.
IsOwnCommand(command) ==
    \/ contains(command, "report_ipc_event")
    \/ contains(command, "start_ipc_monitor")
    \/ contains(command, "stop_ipc_monitor")
    \/ contains(command, "get_ipc_events")

\* window.eval of the JS hook that starts or stops the interception; the
\* result of eval is ignored.
HookStarted(w, evalOk) == IF evalOk THEN hook \cup {w} ELSE hook
HookStopped(w, evalOk) == IF evalOk THEN hook \ {w} ELSE hook

\* A start that switches the JS hook on without calling mon.start().
start_ipc_monitor_hook_only(w, evalOk) ==
    IF monPoisoned
    THEN [ret |-> CmdErr(LockError), monitor |-> monitor, hook |-> hook]
    ELSE [ret |-> CmdOk(<<[text |-> "IPC monitoring started"]>>),
          monitor |-> monitor,
          hook |-> HookStarted(w, evalOk)]

\* start_ipc_monitor: lock, mon.start(), then the JS hook.
start_ipc_monitor(w, evalOk) ==
    IF monPoisoned
    THEN [ret |-> CmdErr(LockError), monitor |-> monitor, hook |-> hook]
    ELSE [ret |-> CmdOk(<<[text |-> "IPC monitoring started"]>>),
          monitor |-> Monitor_start(monitor),
          hook |-> HookStarted(w, evalOk)]

\* stop_ipc_monitor: the JS hook first, then lock and mon.stop().
stop_ipc_monitor(w, evalOk) ==
    IF monPoisoned
    THEN [ret |-> CmdErr(LockError), monitor |-> monitor,
          hook |-> HookStopped(w, evalOk)]
    ELSE [ret |-> CmdOk(<<[text |-> "IPC monitoring stopped"]>>),
          monitor |-> Monitor_stop(monitor),
          hook |-> HookStopped(w, evalOk)]

\* stop_ipc_monitor after the eval of the JS hook: lock and mon.stop().
stop_ipc_monitor_lock ==
    IF monPoisoned
    THEN [ret |-> CmdErr(LockError), monitor |-> monitor, hook |-> hook]
    ELSE [ret |-> CmdOk(<<[text |-> "IPC monitoring stopped"]>>),
          monitor |-> Monitor_stop(monitor), hook |-> hook]

\* A query that takes the events out of the monitor.
get_ipc_events_take ==
    IF monPoisoned
    THEN [ret |-> CmdErr(LockError), monitor |-> monitor, hook |-> hook]
    ELSE [ret |-> CmdOk(Monitor_get_events(monitor)),
          monitor |-> [monitor EXCEPT !.events = <<>>], hook |-> hook]

\* A query that recovers the state from a poisoned mutex.
get_ipc_events_into_inner ==
    [ret |-> CmdOk(Monitor_get_events(monitor)), monitor |-> monitor,
     hook |-> hook]

\* get_ipc_events: lock and mon.get_events().
get_ipc_events ==
    IF monPoisoned
    THEN [ret |-> CmdErr(LockError), monitor |-> monitor, hook |-> hook]
    ELSE [ret |-> CmdOk(Monitor_get_events(monitor)), monitor |-> monitor,
          hook |-> hook]

\* A report that pushes onto the events without asking add_event.
report_ipc_event_push(command) ==
    IF IsOwnCommand(command)
    THEN [ret |-> CmdOk(<<>>), monitor |-> monitor, hook |-> hook]
    ELSE IF monPoisoned
    THEN [ret |-> CmdErr(LockError), monitor |-> monitor, hook |-> hook]
    ELSE [ret |-> CmdOk(<<>>),
          monitor |-> [monitor EXCEPT !.events = Append(@, [command |-> command])],
          hook |-> hook]

\* report_ipc_event: skip the monitor's own commands, then lock and
\* mon.add_event.  Of the event only the command name is kept here.
report_ipc_event(command) ==
    IF IsOwnCommand(command)
    THEN [ret |-> CmdOk(<<>>), monitor |-> monitor, hook |-> hook]
    ELSE IF monPoisoned
    THEN [ret |-> CmdErr(LockError), monitor |-> monitor, hook |-> hook]
    ELSE [ret |-> CmdOk(<<>>),
          monitor |-> Monitor_add_event(monitor, [command |-> command]),
          hook |-> hook]

\* --------------------------------------------------------- script registry
\* ScriptRegistry::add: upsert by id.  An entry registered again keeps its
\* place or moves to the end.
ScriptRegistry_add(reg, entry, toEnd) ==
    IF \E i \in DOMAIN reg : reg[i].id = entry.id
    THEN IF toEnd
         THEN Append(SelectSeq(reg, LAMBDA e : e.id # entry.id), entry)
         ELSE [i \in DOMAIN reg |->
                  IF reg[i].id = entry.id THEN entry ELSE reg[i]]
    ELSE Append(reg, entry)

\* ScriptRegistry::get_all
ScriptRegistry_get_all(reg) == reg

\* ScriptRegistry::remove: the registry without the entry, and whether
\* there was one.
ScriptRegistry_remove(reg, id) ==
    [reg |-> SelectSeq(reg, LAMBDA e : e.id # id),
     removed |-> \E i \in DOMAIN reg : reg[i].id = id]

\* ScriptRegistry::len and ScriptRegistry::clear
ScriptRegistry_len(reg) == Len(reg)
ScriptRegistry_clear(reg) == <<>>

\* resolve_window_with_context: the window a command works on and its
\* windowContext.  pick is the window taken when no label is given.
resolve_window_with_context(label, pick) ==
    IF label # NoLabel
    THEN IF label \in windows
         THEN [ok |-> TRUE, err |-> "", window |-> label,
               context |-> [windowLabel |-> label,
                            totalWindows |-> Cardinality(windows),
                            warning |-> FALSE]]
         ELSE [ok |-> FALSE, err |-> "Window not found: " \o label,
               window |-> NoLabel, context |-> NoContext]
    ELSE IF windows = {}
         THEN [ok |-> FALSE, err |-> "No windows available",
               window |-> NoLabel, context |-> NoContext]
         ELSE [ok |-> TRUE, err |-> "", window |-> pick,
               context |-> [windowLabel |-> pick,
                            totalWindows |-> Cardinality(windows),
                            warning |-> Cardinality(windows) > 1]]

\* The characters a quoted string denotes when the text s stands between
\* two quote characters: a backslash makes the next character part of the
\* string; an unescaped quote, or a backslash in front of the closing quote,
\* ends in a syntax error.  This is the reading of a JavaScript string
\* literal and of a CSS string alike, for the characters of ScriptIds.
RECURSIVE Unquote(_, _)
Unquote(s, quote) ==
    IF s = <<>> THEN [ok |-> TRUE, val |-> <<>>]
    ELSE IF Head(s) = quote THEN [ok |-> FALSE, val |-> <<>>]
    ELSE IF Head(s) = "\\"
    THEN IF Len(s) = 1 THEN [ok |-> FALSE, val |-> <<>>]
         ELSE LET r == Unquote(Tail(Tail(s)), quote)
              IN  [ok |-> r.ok, val |-> <<s[2]>> \o r.val]
    ELSE LET r == Unquote(Tail(s), quote)
         IN  [ok |-> r.ok, val |-> <<Head(s)>> \o r.val]

\* script.setAttribute('data-mcp-script-id', '{id}'): the attribute value
\* is what the JavaScript literal '{id}' denotes.
ScriptTag(id) == Unquote(id, "'")

\* document.querySelector('script[data-mcp-script-id="{id}"]'): the
\* attribute value the selector asks for is what the CSS string denotes
\* that the JavaScript literal denotes.
ScriptSelector(id) ==
    LET js == Unquote(id, "'")
    IN  IF js.ok THEN Unquote(js.val, "\"") ELSE js

\* existing.remove() for the first element the selector finds.
RECURSIVE RemoveFirst(_, _)
RemoveFirst(elems, tag) ==
    IF elems = <<>> THEN <<>>
    ELSE IF Head(elems).tag = tag THEN Tail(elems)
    ELSE <<Head(elems)>> \o RemoveFirst(Tail(elems), tag)

\* The script elements of a document once the injection script has run in
\* it.
Injected(elems, entry) ==
    IF ~ScriptTag(entry.id).ok \/ ~ScriptSelector(entry.id).ok
    THEN elems
    ELSE Append(RemoveFirst(elems, ScriptSelector(entry.id).val),
                [tag |-> ScriptTag(entry.id).val,
                 script_type |-> entry.script_type,
                 content |-> entry.content])

\* inject_script_to_window: window.eval of the script that removes the
\* element found by the selector and appends a new one to document.head.
\* eval reports no error of the script itself: a script that fails to
\* parse, or whose querySelector throws, leaves the document as it is.
inject_script_to_window(w, entry, evalOk) ==
    IF ~evalOk
    THEN [ok |-> FALSE, err |-> "Failed to inject script", dom |-> dom]
    ELSE [ok |-> TRUE, err |-> "",
          dom |-> [dom EXCEPT ![w] = Injected(@, entry)]]

\* remove_script_from_window: window.eval of the script that removes the
\* element found by the selector.
remove_script_from_window(w, script_id, evalOk) ==
    IF ~evalOk
    THEN [ok |-> FALSE, err |-> "Failed to remove script", dom |-> dom]
    ELSE IF ~ScriptSelector(script_id).ok
    THEN [ok |-> TRUE, err |-> "", dom |-> dom]
    ELSE [ok |-> TRUE, err |-> "",
          dom |-> [dom EXCEPT ![w] =
                      RemoveFirst(@, ScriptSelector(script_id).val)]]

\* clear_scripts_from_window: window.eval of the script that removes every
\* element that has the attribute data-mcp-script-id.
clear_scripts_from_window(w, evalOk) ==
    IF ~evalOk
    THEN [ok |-> FALSE, err |-> "Failed to clear scripts", dom |-> dom]
    ELSE [ok |-> TRUE, err |-> "", dom |-> [dom EXCEPT ![w] = <<>>]]

\* inject_script_to_webview: resolve the window, then inject.
inject_script_to_webview(entry, label, env) ==
    LET resolved == resolve_window_with_context(label, env.pick)
    IN  IF ~resolved.ok
        THEN [ok |-> FALSE, err |-> resolved.err, dom |-> dom,
              context |-> NoContext]
        ELSE LET r == inject_script_to_window(resolved.window, entry,
                                              env.evalOk)
             IN  [ok |-> r.ok, err |-> r.err, dom |-> r.dom,
                  context |-> resolved.context]

\* remove_script_from_webview: resolve the window, then remove.
remove_script_from_webview(script_id, label, env) ==
    LET resolved == resolve_window_with_context(label, env.pick)
    IN  IF ~resolved.ok
        THEN [ok |-> FALSE, err |-> resolved.err, dom |-> dom,
              context |-> NoContext]
        ELSE LET r == remove_script_from_window(resolved.window, script_id,
                                                env.evalOk)
             IN  [ok |-> r.ok, err |-> r.err, dom |-> r.dom,
                  context |-> resolved.context]

\* clear_scripts_from_webview: resolve the window, then clear.
clear_scripts_from_webview(label, env) ==
    LET resolved == resolve_window_with_context(label, env.pick)
    IN  IF ~resolved.ok
        THEN [ok |-> FALSE, err |-> resolved.err, dom |-> dom,
              context |-> NoContext]
        ELSE LET r == clear_scripts_from_window(resolved.window, env.evalOk)
             IN  [ok |-> r.ok, err |-> r.err, dom |-> r.dom,
                  context |-> resolved.context]

\* A loop that goes on with the next entry when an injection fails.
RECURSIVE InjectLoop_skip(_, _, _, _)
InjectLoop_skip(elems, scripts, i, failAt) ==
    IF i > Len(scripts)
    THEN [ok |-> failAt = 0,
          err |-> IF failAt = 0 THEN "" ELSE "Failed to inject script",
          elems |-> elems]
    ELSE IF i = failAt
    THEN InjectLoop_skip(elems, scripts, i + 1, failAt)
    ELSE InjectLoop_skip(Injected(elems, scripts[i]), scripts, i + 1, failAt)

\* inject_all_scripts, the loop: the entries are injected one after the
\* other and the first Err returns.  failAt is the position of the entry
\* whose window.eval fails, 0 when none does.
RECURSIVE InjectLoop(_, _, _, _)
InjectLoop(elems, scripts, i, failAt) ==
    IF i > Len(scripts) THEN [ok |-> TRUE, err |-> "", elems |-> elems]
    ELSE IF i = failAt
    THEN [ok |-> FALSE, err |-> "Failed to inject script", elems |-> elems]
    ELSE InjectLoop(Injected(elems, scripts[i]), scripts, i + 1, failAt)

\* A replay that goes on with the next entry when an injection fails.
inject_all_scripts_skip(label, env) ==
    IF regPoisoned
    THEN [panic |-> TRUE, ret |-> CmdErr("panicked"), dom |-> dom]
    ELSE LET scripts == ScriptRegistry_get_all(registry)
             resolved == resolve_window_with_context(label, env.pick)
         IN  IF ~resolved.ok
             THEN [panic |-> FALSE, ret |-> CmdErr(resolved.err), dom |-> dom]
             ELSE LET r == InjectLoop_skip(dom[resolved.window], scripts, 1,
                                      env.failAt)
                      d == [dom EXCEPT ![resolved.window] = r.elems]
                  IN  IF r.ok
                      THEN [panic |-> FALSE,
                            ret |-> CmdOk(<<[count |-> Len(scripts)]>>),
                            dom |-> d]
                      ELSE [panic |-> FALSE, ret |-> CmdErr(r.err), dom |-> d]

\* inject_all_scripts: copy the entries out of the registry, resolve the
\* window, inject every entry.  The count of the entries is returned.
inject_all_scripts(label, env) ==
    IF regPoisoned
    THEN [panic |-> TRUE, ret |-> CmdErr("panicked"), dom |-> dom]
    ELSE LET scripts == ScriptRegistry_get_all(registry)
             resolved == resolve_window_with_context(label, env.pick)
         IN  IF ~resolved.ok
             THEN [panic |-> FALSE, ret |-> CmdErr(resolved.err), dom |-> dom]
             ELSE LET r == InjectLoop(dom[resolved.window], scripts, 1,
                                      env.failAt)
                      d == [dom EXCEPT ![resolved.window] = r.elems]
                  IN  IF r.ok
                      THEN [panic |-> FALSE,
                            ret |-> CmdOk(<<[count |-> Len(scripts)]>>),
                            dom |-> d]
                      ELSE [panic |-> FALSE, ret |-> CmdErr(r.err), dom |-> d]

\* ------------------------------------------------------ screenshot pipeline
\* Option<u32>
None == [some |-> FALSE, val |-> 0]
Some(v) == [some |-> TRUE, val |-> v]

\* An image is known by its encoding and its size; the encoding "bad"
\* stands for bytes that no decoder accepts.
Image(fmt, width, height) == [fmt |-> fmt, width |-> width, height |-> height]

\* The decimal digits, and the value of one.
Digits == <<"0", "1", "2", "3", "4", "5", "6", "7", "8", "9">>
IsDigit(ch) == \E i \in DOMAIN Digits : Digits[i] = ch
DigitVal(ch) == (CHOOSE i \in DOMAIN Digits : Digits[i] = ch) - 1

\* str::parse::<u32>: an optional plus sign and then one digit or more.
\* The strings of EnvValues are too short to pass u32::MAX.
RECURSIVE ParseDigits(_, _)
ParseDigits(s, acc) ==
    IF s = <<>> THEN Some(acc)
    ELSE IF ~IsDigit(Head(s)) THEN None
    ELSE ParseDigits(Tail(s), 10 * acc + DigitVal(Head(s)))

ParseU32(s) ==
    LET d == IF s # <<>> /\ Head(s) = "+" THEN Tail(s) ELSE s
    IN  IF d = <<>> THEN None ELSE ParseDigits(d, 0)

\* A resolution that asks the environment first.
get_effective_max_width_env_first(param, envv) ==
    IF envv.set /\ ParseU32(envv.val).some THEN ParseU32(envv.val)
    ELSE param

\* get_effective_max_width: the parameter, else the value of
\* TAURI_MCP_SCREENSHOT_MAX_WIDTH when it is set and parses, else None.
get_effective_max_width(param, envv) ==
    IF param.some THEN param
    ELSE IF ~envv.set THEN None
    ELSE ParseU32(envv.val)

\* f64::round of a / b for a >= 0 and b > 0: halves go up.
Round(a, b) == (2 * a + b) \div (2 * b)

Max(a, b) == IF a >= b THEN a ELSE b

\* DynamicImage::resize of the image crate: the aspect ratio is kept and
\* the image is scaled to the largest size that fits into nwidth x nheight.
\* The smaller of the two ratios nwidth / width and nheight / height is
\* applied to both sides, each rounded and at least 1.
image_resize(width, height, nwidth, nheight) ==
    IF nwidth * height <= nheight * width
    THEN [width |-> Max(Round(width * nwidth, width), 1),
          height |-> Max(Round(height * nwidth, width), 1)]
    ELSE [width |-> Max(Round(width * nheight, height), 1),
          height |-> Max(Round(height * nheight, height), 1)]

\* resize_if_needed.  pngOk and jpegOk tell whether the PNG and the JPEG
\* encoder succeed.
resize_if_needed(data, max_width, format, pngOk, jpegOk) ==
    IF data.fmt = "bad"
    THEN [ok |-> FALSE, err |-> "Resize failed: Failed to decode image",
          img |-> data]
    ELSE IF data.width <= max_width
    THEN [ok |-> TRUE, err |-> "", img |-> data]
    ELSE LET new_height == Round(data.height * max_width, data.width)
             resized == image_resize(data.width, data.height, max_width,
                                     new_height)
         IN  IF format = "jpeg"
             THEN IF jpegOk
                  THEN [ok |-> TRUE, err |-> "",
                        img |-> Image("jpeg", resized.width, resized.height)]
                  ELSE [ok |-> FALSE,
                        err |-> "Resize failed: Failed to encode JPEG",
                        img |-> data]
             ELSE IF pngOk
                  THEN [ok |-> TRUE, err |-> "",
                        img |-> Image("png", resized.width, resized.height)]
                  ELSE [ok |-> FALSE,
                        err |-> "Resize failed: Failed to encode PNG",
                        img |-> data]

\* A test that takes any bytes for JPEG.
is_jpeg_any(data) == TRUE

\* is_jpeg: the magic bytes.
is_jpeg(data) == data.fmt = "jpeg"

\* convert_png_to_jpeg
convert_png_to_jpeg(png_data, jpegOk) ==
    IF png_data.fmt # "png"
    THEN [ok |-> FALSE, err |-> "Encoding failed: Failed to decode PNG",
          img |-> png_data]
    ELSE IF ~jpegOk
    THEN [ok |-> FALSE, err |-> "Encoding failed: Failed to encode JPEG",
          img |-> png_data]
    ELSE [ok |-> TRUE, err |-> "",
          img |-> Image("jpeg", png_data.width, png_data.height)]

\* capture_viewport_screenshot.  captured is what the platform's
\* capture_viewport returned; the data URL is known by its MIME type and
\* the image it encodes.
capture_viewport_screenshot(captured, format, max_width, envv, pngOk, jpegOk) ==
    IF ~captured.ok THEN CmdErr("Webview capture failed")
    ELSE LET effective_max_width == get_effective_max_width(max_width, envv)
             resized == IF effective_max_width.some
                        THEN resize_if_needed(captured.data,
                                              effective_max_width.val,
                                              format, pngOk, jpegOk)
                        ELSE [ok |-> TRUE, err |-> "", img |-> captured.data]
         IN  IF ~resized.ok THEN CmdErr(resized.err)
             ELSE IF format = "jpeg"
             THEN IF is_jpeg(resized.img)
                  THEN CmdOk(<<[mime |-> "image/jpeg", image |-> resized.img]>>)
                  ELSE LET jpeg == convert_png_to_jpeg(resized.img, jpegOk)
                       IN  IF jpeg.ok
                           THEN CmdOk(<<[mime |-> "image/jpeg",
                                         image |-> jpeg.img]>>)
                           ELSE CmdOk(<<[mime |-> "image/png",
                                         image |-> resized.img]>>)
             ELSE CmdOk(<<[mime |-> "image/png", image |-> resized.img]>>)

\* commands::capture_native_screenshot: the format defaults to "png", the
\* error is returned as its text.
capture_native_screenshot(captured, format, max_width, envv, pngOk, jpegOk) ==
    capture_viewport_screenshot(captured,
                                IF format.some THEN format.val ELSE "png",
                                max_width, envv, pngOk, jpegOk)

\* ---------------------------------------------------------------- handlers
\* What a handler leaves behind: its response, whether it panicked, and the
\* shared state.
Outcome(resp) ==
    [resp |-> resp, panic |-> FALSE, monitor |-> monitor, hook |-> hook,
     registry |-> registry, dom |-> dom]

\* registry.lock().unwrap() on a poisoned mutex: the handler panics, and
\* with it the task that runs handle_connection.
Panicked(id) == [Outcome(error_response(id, "panicked")) EXCEPT !.panic = TRUE]

\* The Result of a Tauri command as a response.
CommandResponse(id, r) ==
    IF r.ok THEN success_response(id, r.data) ELSE error_response(id, r.err)

\* The nested command names that the match of handle_invoke_tauri knows.
InvokeAllowList ==
    {"plugin:mcp-bridge|get_window_info",
     "plugin:mcp-bridge|get_backend_state",
     "plugin:mcp-bridge|start_ipc_monitor",
     "plugin:mcp-bridge|stop_ipc_monitor",
     "plugin:mcp-bridge|get_ipc_events",
     "plugin:mcp-bridge|emit_event"}

\* commands::get_window_info, get_backend_state and emit_event: host
\* operations that return data or an error string.
host_command(tauri_cmd, hostOk) ==
    IF hostOk THEN CmdOk(<<[from |-> tauri_cmd]>>)
    ELSE CmdErr("host operation failed")

\* An answer that does not say which nested command is not supported.
unsupported_command_anon(id, tauri_cmd) ==
    error_response(id, "Unsupported Tauri command")

\* handle_invoke_tauri, the last arm of the match.
unsupported_command(id, tauri_cmd) ==
    error_response(id, "Unsupported Tauri command: " \o tauri_cmd)

\* A handler that starts and stops the monitor without looking for a
\* window.
handle_invoke_tauri_windowless(id, args, env) ==
    IF ~Has(args, "command")
    THEN Outcome(error_response(id, "Missing command in args"))
    ELSE CASE args.command = "plugin:mcp-bridge|start_ipc_monitor" ->
                LET r == start_ipc_monitor(env.pick, env.evalOk)
                IN  [Outcome(CommandResponse(id, r.ret)) EXCEPT
                         !.monitor = r.monitor, !.hook = r.hook]
           [] args.command = "plugin:mcp-bridge|stop_ipc_monitor" ->
                LET r == stop_ipc_monitor(env.pick, env.evalOk)
                IN  [Outcome(CommandResponse(id, r.ret)) EXCEPT
                         !.monitor = r.monitor, !.hook = r.hook]
           [] args.command = "plugin:mcp-bridge|get_ipc_events" ->
                Outcome(CommandResponse(id, get_ipc_events.ret))
           [] args.command \in InvokeAllowList ->
                Outcome(CommandResponse(id,
                            host_command(args.command, env.hostOk)))
           [] OTHER -> Outcome(unsupported_command(id, args.command))

\* handle_invoke_tauri: the IPC monitor commands in full, the other host
\* operations by their result.
handle_invoke_tauri(id, args, env) ==
    IF ~Has(args, "command")
    THEN Outcome(error_response(id, "Missing command in args"))
    ELSE CASE args.command = "plugin:mcp-bridge|start_ipc_monitor" ->
                IF windows = {}
                THEN Outcome(error_response(id, "No window available"))
                ELSE LET r == start_ipc_monitor(env.pick, env.evalOk)
                     IN  [Outcome(CommandResponse(id, r.ret)) EXCEPT
                              !.monitor = r.monitor, !.hook = r.hook]
           [] args.command = "plugin:mcp-bridge|stop_ipc_monitor" ->
                IF windows = {}
                THEN Outcome(error_response(id, "No window available"))
                ELSE LET r == stop_ipc_monitor(env.pick, env.evalOk)
                     IN  [Outcome(CommandResponse(id, r.ret)) EXCEPT
                              !.monitor = r.monitor, !.hook = r.hook]
           [] args.command = "plugin:mcp-bridge|get_ipc_events" ->
                Outcome(CommandResponse(id, get_ipc_events.ret))
           [] args.command \in InvokeAllowList ->
                Outcome(CommandResponse(id,
                            host_command(args.command, env.hostOk)))
           [] OTHER -> Outcome(unsupported_command(id, args.command))

\* handle_register_script
handle_register_script(id, args, env) ==
    IF ~(Has(args, "id") /\ Has(args, "type") /\ Has(args, "content"))
    THEN Outcome(error_response(id, "Missing required args: id, type, content"))
    ELSE IF regPoisoned THEN Panicked(id)
    ELSE LET entry == [id |-> args.id,
                       script_type |-> IF args.type = "url" THEN "Url"
                                                            ELSE "Inline",
                       content |-> args.content]
             label == IF Has(args, "windowLabel") THEN args.windowLabel
                                                  ELSE NoLabel
             inj == inject_script_to_webview(entry, label, env)
             resp == IF inj.ok
                     THEN [success_response(id, <<[registered |-> TRUE,
                                                   scriptId |-> args.id]>>)
                              EXCEPT !.windowContext = inj.context]
                     ELSE error_response(id, inj.err)
         IN  [Outcome(resp) EXCEPT
                  !.registry = ScriptRegistry_add(registry, entry, env.toEnd),
                  !.dom = inj.dom]

\* commands::execute_js: the script runs in the window and its result, or
\* the failure to get one, comes back.
execute_js(w, script, hostOk) ==
    IF hostOk
    THEN CmdOk([success |-> TRUE, data |-> <<[value |-> script]>>,
                error |-> ""])
    ELSE CmdErr("Script execution failed")

\* A handler that takes another window when the label names none.
handle_execute_js_fallback(id, args, env) ==
    IF ~Has(args, "script")
    THEN Outcome(error_response(id, "Missing script argument"))
    ELSE LET named == resolve_window_with_context(
                          IF Has(args, "windowLabel") THEN args.windowLabel
                                                      ELSE NoLabel, env.pick)
             resolved == IF named.ok THEN named
                         ELSE resolve_window_with_context(NoLabel, env.pick)
         IN  IF ~resolved.ok
             THEN Outcome(error_response(id, resolved.err))
             ELSE LET r == execute_js(resolved.window, args.script, env.hostOk)
                  IN  Outcome(IF r.ok
                              THEN [id |-> id, success |-> r.data.success,
                                    error |-> r.data.error,
                                    data |-> r.data.data,
                                    windowContext |-> resolved.context]
                              ELSE [id |-> id, success |-> FALSE,
                                    error |-> r.err, data |-> <<>>,
                                    windowContext |-> resolved.context])

\* handle_execute_js
handle_execute_js(id, args, env) ==
    IF ~Has(args, "script")
    THEN Outcome(error_response(id, "Missing script argument"))
    ELSE LET resolved == resolve_window_with_context(
                             IF Has(args, "windowLabel") THEN args.windowLabel
                                                         ELSE NoLabel,
                             env.pick)
         IN  IF ~resolved.ok
             THEN Outcome(error_response(id, resolved.err))
             ELSE LET r == execute_js(resolved.window, args.script, env.hostOk)
                  IN  Outcome(IF r.ok
                              THEN [id |-> id, success |-> r.data.success,
                                    error |-> r.data.error,
                                    data |-> r.data.data,
                                    windowContext |-> resolved.context]
                              ELSE [id |-> id, success |-> FALSE,
                                    error |-> r.err, data |-> <<>>,
                                    windowContext |-> resolved.context])

\* The windowLabel of a request's args, when it has one.
LabelOf(args) == IF Has(args, "windowLabel") THEN args.windowLabel ELSE NoLabel

\* A handler that puts the entry back when the DOM removal fails.
handle_remove_script_rollback(id, args, env) ==
    IF ~Has(args, "id")
    THEN Outcome(error_response(id, "Missing script id"))
    ELSE IF regPoisoned THEN Panicked(id)
    ELSE LET rem == ScriptRegistry_remove(registry, args.id)
             r == remove_script_from_webview(args.id, LabelOf(args), env)
             data == <<[removed |-> rem.removed /\ r.ok, scriptId |-> args.id]>>
             resp == IF r.ok
                     THEN [success_response(id, data)
                              EXCEPT !.windowContext = r.context]
                     ELSE [success_response(id, data) EXCEPT !.error =
                              "DOM removal failed: " \o r.err]
         IN  [Outcome(resp) EXCEPT
                  !.registry = IF r.ok THEN rem.reg ELSE registry,
                  !.dom = r.dom]

\* handle_remove_script
handle_remove_script(id, args, env) ==
    IF ~Has(args, "id")
    THEN Outcome(error_response(id, "Missing script id"))
    ELSE IF regPoisoned THEN Panicked(id)
    ELSE LET rem == ScriptRegistry_remove(registry, args.id)
             r == remove_script_from_webview(args.id, LabelOf(args), env)
             data == <<[removed |-> rem.removed, scriptId |-> args.id]>>
             resp == IF r.ok
                     THEN [success_response(id, data)
                              EXCEPT !.windowContext = r.context]
                     ELSE [success_response(id, data) EXCEPT !.error =
                              "Script removed from registry but DOM removal failed: "
                                  \o r.err]
         IN  [Outcome(resp) EXCEPT !.registry = rem.reg, !.dom = r.dom]

\* handle_clear_scripts: the label is read from the args of the request,
\* when it has any.
handle_clear_scripts(id, command, env) ==
    IF regPoisoned THEN Panicked(id)
    ELSE LET count == ScriptRegistry_len(registry)
             label == IF Has(command, "args") THEN LabelOf(command.args)
                                              ELSE NoLabel
             r == clear_scripts_from_webview(label, env)
             data == <<[cleared |-> count]>>
             resp == IF r.ok
                     THEN [success_response(id, data)
                              EXCEPT !.windowContext = r.context]
                     ELSE [success_response(id, data) EXCEPT !.error =
                              "Scripts cleared from registry but DOM clear failed: "
                                  \o r.err]
         IN  [Outcome(resp) EXCEPT
                  !.registry = ScriptRegistry_clear(registry), !.dom = r.dom]

\* handle_get_scripts
handle_get_scripts(id) ==
    IF regPoisoned THEN Panicked(id)
    ELSE LET all == ScriptRegistry_get_all(registry)
         IN  Outcome(success_response(id,
                 [i \in DOMAIN all |->
                     [id |-> all[i].id,
                      type |-> IF all[i].script_type = "Inline" THEN "inline"
                                                                ELSE "url",
                      content |-> all[i].content]]))

\* The command names the match of dispatch_command knows.
DispatchTable ==
    {"invoke_tauri", "list_windows", "get_window_info", "execute_js",
     "capture_native_screenshot", "resize_window", "register_script",
     "remove_script", "clear_scripts", "get_scripts"}

\* An answer that does not say which command was not found.
unknown_command_anon(id, cmd_name) == error_response(id, "Unknown command")

\* dispatch_command, the last arm of the match:
\* error_response(id, format!("Unknown command: {cmd_name}")).
unknown_command(id, cmd_name) ==
    error_response(id, "Unknown command: " \o cmd_name)

\* dispatch_command: the match on the command name, for the commands whose
\* handlers are modelled here.
dispatch_command(f, env) ==
    CASE f.command = "invoke_tauri" ->
            IF Has(f, "args")
            THEN handle_invoke_tauri(IdOf(f), f.args, env)
            ELSE Outcome(error_response(IdOf(f),
                                        "Missing args for invoke_tauri"))
      [] f.command = "execute_js" ->
            IF Has(f, "args")
            THEN handle_execute_js(IdOf(f), f.args, env)
            ELSE Outcome(error_response(IdOf(f), "Missing args"))
      [] f.command = "register_script" ->
            IF Has(f, "args")
            THEN handle_register_script(IdOf(f), f.args, env)
            ELSE Outcome(error_response(IdOf(f),
                                        "Missing args for register_script"))
      [] f.command = "remove_script" ->
            IF Has(f, "args")
            THEN handle_remove_script(IdOf(f), f.args, env)
            ELSE Outcome(error_response(IdOf(f),
                                        "Missing args for remove_script"))
      [] f.command = "clear_scripts" -> handle_clear_scripts(IdOf(f), f, env)
      [] f.command = "get_scripts" -> handle_get_scripts(IdOf(f))
      [] OTHER -> Outcome(unknown_command(IdOf(f), f.command))

\* The commands whose handlers work on a webview window.
WindowCommands ==
    {"invoke_tauri", "execute_js", "register_script", "remove_script",
     "clear_scripts"}

\* The commands whose handlers call a host operation that can fail.
HostCommands == {"invoke_tauri", "execute_js"}

\* What the handler of a request finds outside the program: the window that
\* is taken when none is named, whether window.eval succeeds, and where the
\* registry puts an entry that is registered again.
HandlerEnvs(f) ==
    [pick : IF f.command \in WindowCommands /\ windows # {}
            THEN windows ELSE {NoLabel},
     evalOk : IF f.command \in WindowCommands THEN BOOLEAN ELSE {TRUE},
     toEnd : IF f.command = "register_script" THEN BOOLEAN ELSE {TRUE},
     hostOk : IF f.command \in HostCommands THEN BOOLEAN ELSE {TRUE}]


\* ---------------------------------------------------------- initial state
Init ==
    /\ listening = TRUE
    /\ rpc = [c \in Conns |-> "new"]
    /\ inflight = [c \in Conns |-> <<>>]
    /\ respq = [c \in Conns |-> <<>>]
    /\ wpc = [c \in Conns |-> "none"]
    /\ evOff = [c \in Conns |-> FALSE]
    /\ cursor = [c \in Conns |-> 0]
    /\ chan = <<>>
    /\ nsent = 0
    /\ subAt = [c \in Conns |-> 0]
    /\ lagged = [c \in Conns |-> FALSE]
    /\ nread = 0
    /\ rlog = [c \in Conns |-> <<>>]
    /\ outR = [c \in Conns |-> <<>>]
    /\ outE = [c \in Conns |-> <<>>]
    /\ windows = {"main"}
    /\ monitor = [enabled |-> FALSE, events |-> <<>>]
    /\ hook = {}
    /\ monPoisoned = FALSE
    /\ regPoisoned = FALSE
    /\ registry = <<>>
    /\ dom = [w \in WindowLabels |-> <<>>]
    /\ ret = [cmd |-> "", ok |-> TRUE, err |-> "", data |-> <<>>,
              call |-> NoCall]

\* ------------------------------------------------------ broadcast channel
\* A subscription that replays what the channel still retains.
SubscribePos_replay == OldestRetained

\* event_tx.subscribe(): a new receiver starts at the tail of the channel.
SubscribePos == Len(chan)

\* broadcast::Sender::send never waits for a receiver.
CanSend == TRUE

\* An overrun receiver that loses its whole backlog.
LagTarget_all == Len(chan)

\* Receiver::recv on an overrun receiver: Err(Lagged), and the receiver is
\* moved to the oldest message the channel retains.
LagTarget == OldestRetained

\* A receiver that does not move on.
NextCursor_stay(k) == k

\* Receiver::recv of one message moves the receiver one position on.
NextCursor(k) == k + 1

\* WebSocketServer::broadcast and the element picker forwarders:
\* let _ = event_tx.send(msg).  With no receiver the send fails and the
\* message is dropped.
Broadcast ==
    /\ nsent < MaxBroadcasts
    /\ CanSend
    /\ nsent' = nsent + 1
    /\ chan' = IF Receivers = {} THEN chan ELSE Append(chan, nsent + 1)
    /\ UNCHANGED <<appvars, ret, listening, rpc, inflight, respq, wpc, evOff,
                   cursor, subAt,
                   lagged, nread, rlog, outR, outE>>

\* ------------------------------------------------------------ connection
\* The next connection whose handshake ends.
NextConn(c) ==
    \E i \in DOMAIN ConnOrder :
        /\ ConnOrder[i] = c
        /\ rpc[c] = "new"
        /\ \A j \in 1..(i - 1) : rpc[ConnOrder[j]] # "new"

\* WebSocketServer::start spawns handle_connection; accept_async succeeds,
\* the connection subscribes, creates its response channel and spawns the
\* send task.
Accept(c) ==
    /\ listening
    /\ NextConn(c)
    /\ rpc' = [rpc EXCEPT ![c] = "open"]
    /\ wpc' = [wpc EXCEPT ![c] = "select"]
    /\ cursor' = [cursor EXCEPT ![c] = SubscribePos]
    /\ subAt' = [subAt EXCEPT ![c] = nsent]
    /\ UNCHANGED <<appvars, ret, listening, inflight, respq, evOff, chan,
                   nsent, lagged,
                   nread, rlog, outR, outE>>

\* accept_async(stream).await? fails: handle_connection returns Err before
\* subscribing.
HandshakeFail(c) ==
    /\ listening
    /\ NextConn(c)
    /\ rpc' = [rpc EXCEPT ![c] = "done"]
    /\ UNCHANGED <<appvars, ret, listening, inflight, respq, wpc, evOff,
                   cursor, chan, nsent,
                   subAt, lagged, nread, rlog, outR, outE>>

\* listener.accept().await? returns Err instead of the next peer's stream:
\* start returns the error and its accept loop is over.  The connections
\* already spawned run on.
AcceptError ==
    /\ listening
    /\ \E c \in Conns : NextConn(c)
    /\ listening' = FALSE
    /\ UNCHANGED <<appvars, ret, rpc, inflight, respq, wpc, evOff, cursor,
                   chan, nsent,
                   subAt, lagged, nread, rlog, outR, outE>>

\* A reader that spawns each dispatch and goes on reading.
CanRead_spawn(c) == rpc[c] = "open"

\* A reader that dispatches under one lock shared by all connections.
CanRead_serial(c) == rpc[c] = "open" /\ \A d \in Conns : inflight[d] = <<>>

\* The reader awaits ws_receiver.next() only between two dispatches.
CanRead(c) == rpc[c] = "open" /\ inflight[c] = <<>>

\* A reader that answers a parse failure with an error response.
ParseFailureReply_error(c, idx) ==
    <<RespMsg(c, idx, error_response("", "Invalid JSON"))>>

\* What the reader sends back for a text frame that is not JSON: nothing.
ParseFailureReply(c, idx) == <<>>

\* One response channel shared by all connections.
ResponseChannel_shared(c) == "c1"

\* response_tx.send on the connection's own channel.
ResponseChannel(c) == c

\* A channel that hands out the newest response first.
Enqueue_front(q, m) == <<m>> \o q

\* A channel that loses error responses.
Enqueue_lossy(q, m) == IF m.body.success THEN Append(q, m) ELSE q

\* mpsc send: the response joins the end of the channel.
Enqueue(q, m) == Append(q, m)

\* send_task.abort(): the send task is cancelled at its await point; its
\* receivers and whatever they still hold are dropped.
AbortWriter(c) ==
    /\ wpc' = [wpc EXCEPT ![c] = IF WriterAlive(c) THEN "aborted" ELSE @]
    /\ evOff' = [evOff EXCEPT ![c] = FALSE]
    /\ respq' = [respq EXCEPT ![c] = <<>>]
    /\ cursor' = [cursor EXCEPT ![c] = 0]

\* How many frames the peers send when f is one of them: one more when f
\* is a request on the script registry and its documents, or on the IPC
\* monitor.
FrameLimit(f) ==
    IF f \in DomFrames \cup MonFrames THEN MaxFrames + 1 ELSE MaxFrames

\* One iteration of while let Some(msg) = ws_receiver.next().await, up to
\* the next await.
ReadFrame(c, f) ==
    /\ CanRead(c)
    /\ nread < FrameLimit(f)
    /\ nread' = nread + 1
    /\ rlog' = IF f.kind \in {"close", "error", "eof"}
               THEN rlog
               ELSE [rlog EXCEPT ![c] = Append(@, f)]
    /\ CASE f.kind = "text" /\ f.json ->
               /\ inflight' = [inflight EXCEPT ![c] = Append(@, f)]
               /\ UNCHANGED <<rpc, respq, wpc, evOff, cursor>>
         [] f.kind = "text" /\ ~f.json ->
               /\ respq' = [respq EXCEPT ![c] =
                                @ \o ParseFailureReply(c, Len(rlog[c]) + 1)]
               /\ UNCHANGED <<rpc, inflight, wpc, evOff, cursor>>
         [] f.kind \in {"close", "error", "eof"} ->
               /\ rpc' = [rpc EXCEPT ![c] = "done"]
               /\ AbortWriter(c)
               /\ UNCHANGED inflight
         [] OTHER ->
               UNCHANGED <<rpc, inflight, respq, wpc, evOff, cursor>>
    /\ UNCHANGED <<appvars, ret, listening, chan, nsent, subAt, lagged, outR,
                   outE>>

\* A request whose handler has been left between two statements while
\* other tasks run: at says what the handler has done so far, kept is the
\* local it holds on to (the window it took, or what reg.remove returned).
Paused(f, at, kept) ==
    [kind |-> f.kind, json |-> f.json, id |-> f.id, command |-> f.command,
     args |-> f.args, at |-> at, kept |-> kept]

\* handle_register_script: the entry built from the args.
EntryOf(args) ==
    [id |-> args.id,
     script_type |-> IF args.type = "url" THEN "Url" ELSE "Inline",
     content |-> args.content]

\* The nested command of a request that has not been paused, "" when the
\* request is no invoke_tauri request with one.
TauriCmd(f) ==
    IF /\ f.command = "invoke_tauri" /\ ~Has(f, "at")
       /\ Has(f, "args") /\ Has(f.args, "command")
    THEN f.args.command ELSE ""

\* The connections whose start_ipc_monitor holds the MutexGuard mon: from
\* monitor.lock() to the end of the function.
MonitorHolders ==
    {c \in Conns : /\ inflight[c] # <<>>
                   /\ Has(Head(inflight[c]), "at")
                   /\ Head(inflight[c]).at \in {"started", "hooked"}}

\* What is left of a paused handler runs: after the eval of the hook a
\* start_ipc_monitor returns and drops its guard, and a stop_ipc_monitor
\* locks the monitor and stops it; after the registry is changed and its
\* guard dropped, handle_register_script injects the entry and
\* handle_remove_script removes the element.
resume_command(f, env) ==
    CASE f.at = "hooked" ->
            Outcome(success_response(IdOf(f),
                                     <<[text |-> "IPC monitoring started"]>>))
      [] f.at = "unhooked" ->
            LET r == stop_ipc_monitor_lock
            IN  [Outcome(CommandResponse(IdOf(f), r.ret)) EXCEPT
                     !.monitor = r.monitor]
      [] f.at = "added" ->
            LET inj == inject_script_to_webview(EntryOf(f.args),
                                                LabelOf(f.args), env)
                resp == IF inj.ok
                        THEN [success_response(IdOf(f),
                                  <<[registered |-> TRUE,
                                     scriptId |-> f.args.id]>>)
                                 EXCEPT !.windowContext = inj.context]
                        ELSE error_response(IdOf(f), inj.err)
            IN  [Outcome(resp) EXCEPT !.dom = inj.dom]
      [] OTHER ->
            LET r == remove_script_from_webview(f.args.id, LabelOf(f.args),
                                                env)
                data == <<[removed |-> f.kept, scriptId |-> f.args.id]>>
                resp == IF r.ok
                        THEN [success_response(IdOf(f), data)
                                 EXCEPT !.windowContext = r.context]
                        ELSE [success_response(IdOf(f), data) EXCEPT !.error =
                                 "Script removed from registry but DOM removal failed: "
                                     \o r.err]
            IN  [Outcome(resp) EXCEPT !.dom = r.dom]

\* The handler of the oldest request in dispatch can go on to its end: it
\* is not in the middle of a start_ipc_monitor that has yet to eval the
\* hook, and the monitor mutex, when it takes it, is not held by another
\* task.
CanFinish(c) ==
    LET f == Head(inflight[c])
    IN  /\ Has(f, "at") => f.at # "started"
        /\ \/ MonitorHolders \subseteq {c}
           \/ /\ ~Has(f, "at")
              /\ \/ TauriCmd(f) \notin {"plugin:mcp-bridge|start_ipc_monitor",
                                        "plugin:mcp-bridge|stop_ipc_monitor",
                                        "plugin:mcp-bridge|get_ipc_events"}
                 \/ /\ TauriCmd(f) # "plugin:mcp-bridge|get_ipc_events"
                    /\ windows = {}

\* start_ipc_monitor called by handle_invoke_tauri, up to mon.start(): the
\* handler has taken a window and the command has locked the monitor and
\* started it.  The guard is held on.
StartLock(c) ==
    /\ rpc[c] = "open"
    /\ inflight[c] # <<>>
    /\ TauriCmd(Head(inflight[c])) = "plugin:mcp-bridge|start_ipc_monitor"
    /\ windows # {}
    /\ ~monPoisoned
    /\ MonitorHolders = {}
    /\ \E w \in windows :
          inflight' = [inflight EXCEPT ![c] =
                          <<Paused(Head(@), "started", w)>> \o Tail(@)]
    /\ monitor' = Monitor_start(monitor)
    /\ UNCHANGED <<listening, rpc, respq, wpc, evOff, cursor, chan, nsent,
                   subAt, lagged, nread, rlog, outR, outE, windows, hook,
                   monPoisoned, regPoisoned, registry, dom, ret>>

\* start_ipc_monitor, the eval of the JS hook under the guard.
StartEval(c, evalOk) ==
    /\ rpc[c] = "open"
    /\ inflight[c] # <<>>
    /\ Has(Head(inflight[c]), "at")
    /\ Head(inflight[c]).at = "started"
    /\ hook' = HookStarted(Head(inflight[c]).kept, evalOk)
    /\ inflight' = [inflight EXCEPT ![c] =
                        <<[Head(@) EXCEPT !.at = "hooked"]>> \o Tail(@)]
    /\ UNCHANGED <<listening, rpc, respq, wpc, evOff, cursor, chan, nsent,
                   subAt, lagged, nread, rlog, outR, outE, windows, monitor,
                   monPoisoned, regPoisoned, registry, dom, ret>>

\* stop_ipc_monitor called by handle_invoke_tauri, up to the eval of the JS
\* hook: the handler has taken a window and the command has switched the
\* interception off.  The monitor is not locked yet.
StopEval(c, evalOk) ==
    /\ rpc[c] = "open"
    /\ inflight[c] # <<>>
    /\ TauriCmd(Head(inflight[c])) = "plugin:mcp-bridge|stop_ipc_monitor"
    /\ windows # {}
    /\ \E w \in windows :
          /\ hook' = HookStopped(w, evalOk)
          /\ inflight' = [inflight EXCEPT ![c] =
                              <<Paused(Head(@), "unhooked", w)>> \o Tail(@)]
    /\ UNCHANGED <<listening, rpc, respq, wpc, evOff, cursor, chan, nsent,
                   subAt, lagged, nread, rlog, outR, outE, windows, monitor,
                   monPoisoned, regPoisoned, registry, dom, ret>>

\* handle_register_script up to the end of the block that holds the
\* registry guard: the entry is in the registry and the guard is dropped.
RegisterAdd(c) ==
    /\ rpc[c] = "open"
    /\ inflight[c] # <<>>
    /\ ~regPoisoned
    /\ LET f == Head(inflight[c])
       IN  /\ ~Has(f, "at")
           /\ f.command = "register_script"
           /\ Has(f, "args")
           /\ Has(f.args, "id") /\ Has(f.args, "type")
           /\ Has(f.args, "content")
           /\ \E toEnd \in BOOLEAN :
                  registry' = ScriptRegistry_add(registry, EntryOf(f.args),
                                                 toEnd)
           /\ inflight' = [inflight EXCEPT ![c] =
                               <<Paused(f, "added", NoLabel)>> \o Tail(@)]
    /\ UNCHANGED <<listening, rpc, respq, wpc, evOff, cursor, chan, nsent,
                   subAt, lagged, nread, rlog, outR, outE, windows, monitor,
                   hook, monPoisoned, regPoisoned, dom, ret>>

\* handle_remove_script up to the end of the block that holds the registry
\* guard: the entry is out of the registry and the guard is dropped.
RemoveEntry(c) ==
    /\ rpc[c] = "open"
    /\ inflight[c] # <<>>
    /\ ~regPoisoned
    /\ LET f == Head(inflight[c])
       IN  /\ ~Has(f, "at")
           /\ f.command = "remove_script"
           /\ Has(f, "args")
           /\ Has(f.args, "id")
           /\ LET rem == ScriptRegistry_remove(registry, f.args.id)
              IN  /\ registry' = rem.reg
                  /\ inflight' = [inflight EXCEPT ![c] =
                                      <<Paused(f, "removed", rem.removed)>>
                                          \o Tail(@)]
    /\ UNCHANGED <<listening, rpc, respq, wpc, evOff, cursor, chan, nsent,
                   subAt, lagged, nread, rlog, outR, outE, windows, monitor,
                   hook, monPoisoned, regPoisoned, dom, ret>>

\* Position in the connection's input of the oldest request in dispatch.
InflightIdx(c) == Len(rlog[c]) - Len(inflight[c]) + 1

\* dispatch_command(...).await returns and the reader does
\* let _ = response_tx.send(response.to_string()): the response is queued
\* if the send task still holds the receiver, and discarded otherwise.
\* A handler that panics unwinds the task: the reader is gone and
\* response_tx is dropped, while the send task, never aborted, runs on.
\* The handler runs from where it is to its end: all of it, or what is left
\* of it when other tasks have run since it began.
DispatchDone(c) ==
    /\ rpc[c] = "open"
    /\ inflight[c] # <<>>
    /\ CanFinish(c)
    /\ \E env \in HandlerEnvs(Head(inflight[c])) :
          LET h == IF Has(Head(inflight[c]), "at")
                   THEN resume_command(Head(inflight[c]), env)
                   ELSE dispatch_command(Head(inflight[c]), env)
              m == RespMsg(c, InflightIdx(c), h.resp)
              d == ResponseChannel(c)
          IN  /\ rpc' = [rpc EXCEPT ![c] = IF h.panic THEN "panicked" ELSE @]
              /\ respq' = IF ~h.panic /\ WriterAlive(d)
                          THEN [respq EXCEPT ![d] = Enqueue(@, m)]
                          ELSE respq
              /\ monitor' = h.monitor
              /\ hook' = h.hook
              /\ registry' = h.registry
              /\ dom' = h.dom
    /\ inflight' = [inflight EXCEPT ![c] = Tail(@)]
    /\ UNCHANGED <<listening, wpc, evOff, cursor, chan, nsent, subAt,
                   lagged, nread, rlog, outR, outE, windows, monPoisoned,
                   regPoisoned, ret>>

\* --------------------------------------------------------------- send task
\* What the send task does once ws_sender.send(..).await has returned: on Ok
\* it starts the next iteration of its loop, on Err it breaks out of the
\* loop and ends, dropping both receivers.  The reader is not told.
\* q and k are the response channel and the broadcast receiver once the
\* message is taken.
AfterWrite(c, sent, q, k) ==
    /\ wpc' = [wpc EXCEPT ![c] = IF sent THEN "select" ELSE "ended"]
    /\ evOff' = [evOff EXCEPT ![c] = FALSE]
    /\ respq' = [respq EXCEPT ![c] = IF sent THEN q ELSE <<>>]
    /\ cursor' = [cursor EXCEPT ![c] = IF sent THEN k ELSE 0]

\* select! branch Ok(msg) = event_rx.recv(): a retained message is ready and
\* is written to the peer.
WriterSendEvent(c, sent) ==
    /\ wpc[c] = "select"
    /\ ~evOff[c]
    /\ cursor[c] >= OldestRetained
    /\ cursor[c] < Len(chan)
    /\ outE' = IF sent THEN [outE EXCEPT ![c] = Append(@, chan[cursor[c] + 1])]
                       ELSE outE
    /\ AfterWrite(c, sent, respq[c], NextCursor(cursor[c]))
    /\ UNCHANGED <<appvars, ret, listening, rpc, inflight, chan, nsent, subAt,
                   lagged, nread,
                   rlog, outR>>

\* event_rx.recv() returns Err(Lagged): the pattern Ok(msg) does not match,
\* so select! disables the branch and keeps waiting on the other one.
WriterLagged(c) ==
    /\ wpc[c] = "select"
    /\ ~evOff[c]
    /\ cursor[c] < OldestRetained
    /\ cursor' = [cursor EXCEPT ![c] = LagTarget]
    /\ evOff' = [evOff EXCEPT ![c] = TRUE]
    /\ lagged' = [lagged EXCEPT ![c] = TRUE]
    /\ UNCHANGED <<appvars, ret, listening, rpc, inflight, respq, wpc, chan,
                   nsent, subAt,
                   nread, rlog, outR, outE>>

\* select! branch Some(response) = response_rx.recv(): the oldest queued
\* response is written to the peer.
WriterSendResponse(c, sent) ==
    /\ wpc[c] = "select"
    /\ respq[c] # <<>>
    /\ outR' = IF sent THEN [outR EXCEPT ![c] = Append(@, Head(respq[c]))]
                       ELSE outR
    /\ AfterWrite(c, sent, Tail(respq[c]), cursor[c])
    /\ UNCHANGED <<appvars, ret, listening, rpc, inflight, chan, nsent, subAt,
                   lagged, nread,
                   rlog, outE>>

\* select! branch else => break: both branches are disabled.  The broadcast
\* branch is disabled once event_rx.recv() has returned Err, the response
\* branch once response_rx.recv() returns None, which it does when the
\* channel is empty and response_tx is dropped; the reader drops it without
\* aborting the send task only when it unwinds from a panic.
WriterElse(c) ==
    /\ wpc[c] = "select"
    /\ evOff[c]
    /\ respq[c] = <<>>
    /\ rpc[c] = "panicked"
    /\ AfterWrite(c, FALSE, <<>>, 0)
    /\ UNCHANGED <<appvars, ret, listening, rpc, inflight, chan, nsent, subAt,
                   lagged, nread, rlog, outR, outE>>

\* A handler that was paused runs to its end.
Resume(c) ==
    /\ inflight[c] # <<>>
    /\ Has(Head(inflight[c]), "at")
    /\ DispatchDone(c)

\* ------------------------------------------------- webviews and the host
\* The value a webview gets back from invoke().
Returned(cmd, r) ==
    [cmd |-> cmd, ok |-> r.ok, err |-> r.err, data |-> r.data,
     call |-> NoCall]

\* A webview invokes plugin:mcp-bridge|start_ipc_monitor.
InvokeStart(w, evalOk) ==
    /\ w \in windows
    /\ LET r == start_ipc_monitor(w, evalOk)
       IN  /\ monitor' = r.monitor
           /\ hook' = r.hook
           /\ ret' = Returned("start_ipc_monitor", r.ret)
    /\ UNCHANGED <<listening, rpc, inflight, respq, wpc, evOff, cursor, chan,
                   nsent, subAt, lagged, nread, rlog, outR, outE, windows,
                   monPoisoned, regPoisoned, registry, dom>>

\* A webview invokes plugin:mcp-bridge|stop_ipc_monitor.
InvokeStop(w, evalOk) ==
    /\ w \in windows
    /\ LET r == stop_ipc_monitor(w, evalOk)
       IN  /\ monitor' = r.monitor
           /\ hook' = r.hook
           /\ ret' = Returned("stop_ipc_monitor", r.ret)
    /\ UNCHANGED <<listening, rpc, inflight, respq, wpc, evOff, cursor, chan,
                   nsent, subAt, lagged, nread, rlog, outR, outE, windows,
                   monPoisoned, regPoisoned, registry, dom>>

\* A webview invokes plugin:mcp-bridge|get_ipc_events.
InvokeGetEvents ==
    /\ windows # {}
    /\ LET r == get_ipc_events
       IN  /\ monitor' = r.monitor
           /\ hook' = r.hook
           /\ ret' = Returned("get_ipc_events", r.ret)
    /\ UNCHANGED <<listening, rpc, inflight, respq, wpc, evOff, cursor, chan,
                   nsent, subAt, lagged, nread, rlog, outR, outE, windows,
                   monPoisoned, regPoisoned, registry, dom>>

\* The IPC interceptor of a webview reports an invocation with
\* plugin:mcp-bridge|report_ipc_event.
InvokeReport(command) ==
    /\ windows # {}
    /\ Len(monitor.events) < MaxEvents
    /\ LET r == report_ipc_event(command)
       IN  /\ monitor' = r.monitor
           /\ hook' = r.hook
           /\ ret' = Returned("report_ipc_event", r.ret)
    /\ UNCHANGED <<listening, rpc, inflight, respq, wpc, evOff, cursor, chan,
                   nsent, subAt, lagged, nread, rlog, outR, outE, windows,
                   monPoisoned, regPoisoned, registry, dom>>

\* A thread panics while it holds the IPCMonitorState mutex: from then on
\* lock() returns Err(PoisonError).
PoisonMonitor ==
    /\ ~monPoisoned
    /\ monPoisoned' = TRUE
    /\ UNCHANGED <<listening, rpc, inflight, respq, wpc, evOff, cursor, chan,
                   nsent, subAt, lagged, nread, rlog, outR, outE, windows,
                   monitor, hook, regPoisoned, registry, dom, ret>>

\* A thread panics while it holds the SharedScriptRegistry mutex.
PoisonRegistry ==
    /\ ~regPoisoned
    /\ regPoisoned' = TRUE
    /\ UNCHANGED <<listening, rpc, inflight, respq, wpc, evOff, cursor, chan,
                   nsent, subAt, lagged, nread, rlog, outR, outE, windows,
                   monitor, hook, monPoisoned, registry, dom, ret>>

\* A webview window is closed: app.webview_windows() no longer has it, and
\* its document and its interception are gone.
CloseWindow(w) ==
    /\ w \in windows
    /\ windows' = windows \ {w}
    /\ hook' = hook \ {w}
    /\ dom' = [dom EXCEPT ![w] = <<>>]
    /\ UNCHANGED <<listening, rpc, inflight, respq, wpc, evOff, cursor, chan,
                   nsent, subAt, lagged, nread, rlog, outR, outE, monitor,
                   monPoisoned, regPoisoned, registry, ret>>

\* A webview window is created.
OpenWindow(w) ==
    /\ w \notin windows
    /\ windows' = windows \cup {w}
    /\ UNCHANGED <<listening, rpc, inflight, respq, wpc, evOff, cursor, chan,
                   nsent, subAt, lagged, nread, rlog, outR, outE, monitor,
                   hook, monPoisoned, regPoisoned, registry, dom, ret>>

\* The page of a window is loaded anew: its document starts without the
\* injected elements and without the interception.
Reload(w) ==
    /\ w \in windows
    /\ dom[w] # <<>>
    /\ dom' = [dom EXCEPT ![w] = <<>>]
    /\ hook' = hook \ {w}
    /\ UNCHANGED <<listening, rpc, inflight, respq, wpc, evOff, cursor, chan,
                   nsent, subAt, lagged, nread, rlog, outR, outE, windows,
                   monitor, monPoisoned, regPoisoned, registry, ret>>

\* What inject_all_scripts finds outside the program.
ReplayEnvs ==
    [pick : IF windows # {} THEN windows ELSE {NoLabel},
     failAt : 0..Len(registry)]

\* The page-load hook calls inject_all_scripts.
InjectAll(label) ==
    /\ \E env \in ReplayEnvs :
          LET r == inject_all_scripts(label, env)
          IN  /\ dom' = r.dom
              /\ ret' = Returned("inject_all_scripts", r.ret)
    /\ UNCHANGED <<listening, rpc, inflight, respq, wpc, evOff, cursor, chan,
                   nsent, subAt, lagged, nread, rlog, outR, outE, windows,
                   monitor, hook, monPoisoned, regPoisoned, registry>>

\* A webview invokes plugin:mcp-bridge|capture_native_screenshot.  The
\* pipeline keeps nothing from one call to the next, so one call is looked
\* at.
InvokeCapture ==
    /\ windows # {}
    /\ ret.cmd # "capture_native_screenshot"
    /\ \E format \in {[some |-> FALSE, val |-> ""],
                       [some |-> TRUE, val |-> "png"],
                       [some |-> TRUE, val |-> "jpeg"],
                       [some |-> TRUE, val |-> "webp"]},
          max_width \in {None} \cup {Some(m) : m \in Dims},
          envv \in EnvValues, captured \in Captures,
          pngOk \in BOOLEAN, jpegOk \in BOOLEAN :
          ret' = [Returned("capture_native_screenshot",
                           capture_native_screenshot(captured, format,
                               max_width, envv, pngOk, jpegOk))
                     EXCEPT !.call = [format |-> format,
                                      max_width |-> max_width,
                                      envv |-> envv, captured |-> captured,
                                      pngOk |-> pngOk, jpegOk |-> jpegOk]]
    /\ UNCHANGED <<listening, rpc, inflight, respq, wpc, evOff, cursor, chan,
                   nsent, subAt, lagged, nread, rlog, outR, outE, windows,
                   monitor, hook, monPoisoned, regPoisoned, registry, dom>>

\* ------------------------------------------------------------ specification
Next ==
    \/ Broadcast
    \/ \E c \in Conns : Accept(c)
    \/ \E c \in Conns : HandshakeFail(c)
    \/ AcceptError
    \/ \E c \in Conns, f \in Frames : ReadFrame(c, f)
    \/ \E c \in Conns : DispatchDone(c)
    \/ \E c \in Conns, sent \in BOOLEAN : WriterSendEvent(c, sent)
    \/ \E c \in Conns : WriterLagged(c)
    \/ \E c \in Conns, sent \in BOOLEAN : WriterSendResponse(c, sent)

Spec == Init /\ [][Next]_vars

\* The connection that the specifications of the shared state look at.
AppConn == ConnOrder[1]

\* The IPC monitor: its commands invoked by the webviews.
MonNext ==
    \/ \E w \in WindowLabels, evalOk \in BOOLEAN : InvokeStart(w, evalOk)
    \/ \E w \in WindowLabels, evalOk \in BOOLEAN : InvokeStop(w, evalOk)
    \/ InvokeGetEvents
    \/ \E command \in ReportedCommands : InvokeReport(command)
    \/ PoisonMonitor
    \/ \E w \in WindowLabels : CloseWindow(w)

MonSpec == Init /\ [][MonNext]_vars

\* The IPC monitor behind the bridge: start, stop and query proxied over one
\* connection, while the webviews report invocations.
MonBridgeNext ==
    \/ Accept(AppConn)
    \/ \E f \in MonFrames : ReadFrame(AppConn, f)
    \/ DispatchDone(AppConn)
    \/ WriterSendResponse(AppConn, TRUE)
    \/ \E command \in ReportedCommands : InvokeReport(command)
    \/ PoisonMonitor
    \/ \E w \in WindowLabels : CloseWindow(w)

MonBridgeSpec == Init /\ [][MonBridgeNext]_vars

\* The script registry: its commands over one connection.
RegNext ==
    \/ Accept(AppConn)
    \/ \E f \in RegFrames : ReadFrame(AppConn, f)
    \/ DispatchDone(AppConn)
    \/ WriterSendResponse(AppConn, TRUE)
    \/ PoisonRegistry

RegSpec == Init /\ [][RegNext]_vars

\* The script registry and the documents of the windows: the registry
\* commands over one connection while a second window opens.
DomNext ==
    \/ Accept(AppConn)
    \/ \E f \in DomFrames : ReadFrame(AppConn, f)
    \/ DispatchDone(AppConn)
    \/ WriterSendResponse(AppConn, TRUE)
    \/ \E w \in WindowLabels : OpenWindow(w)

DomSpec == Init /\ [][DomNext]_vars

\* The host behind the bridge: scripts run in windows and host operations
\* proxied over one connection, while windows open and close.
HostNext ==
    \/ Accept(AppConn)
    \/ \E f \in HostFrames : ReadFrame(AppConn, f)
    \/ DispatchDone(AppConn)
    \/ WriterSendResponse(AppConn, TRUE)
    \/ \E w \in WindowLabels : OpenWindow(w)
    \/ \E w \in WindowLabels : CloseWindow(w)

HostSpec == Init /\ [][HostNext]_vars

\* The screenshot pipeline, as the webviews invoke it.
ShotNext == InvokeCapture

ShotSpec == Init /\ [][ShotNext]_vars

\* The replay on page load: scripts are registered over one connection,
\* pages reload and the page-load hook injects the registered scripts.
ReplayNext ==
    \/ Accept(AppConn)
    \/ \E f \in ReplayFrames : ReadFrame(AppConn, f)
    \/ DispatchDone(AppConn)
    \/ \E w \in WindowLabels : Reload(w)
    \/ \E label \in WindowLabels \cup {NoLabel} : InjectAll(label)

ReplaySpec == Init /\ [][ReplayNext]_vars

\* The send task of one connection and the broadcast channel: requests are
\* answered and broadcasts forwarded while the producers overrun the
\* receiver and the registry mutex can be poisoned.
LagNext ==
    \/ Accept(AppConn)
    \/ Broadcast
    \/ \E f \in RequestFrames : ReadFrame(AppConn, f)
    \/ DispatchDone(AppConn)
    \/ \E sent \in BOOLEAN : WriterSendEvent(AppConn, sent)
    \/ WriterLagged(AppConn)
    \/ \E sent \in BOOLEAN : WriterSendResponse(AppConn, sent)
    \/ WriterElse(AppConn)
    \/ PoisonRegistry

LagSpec == Init /\ [][LagNext]_vars

\* The requests that start and stop the IPC monitor.
StartStopFrames ==
    {f \in MonFrames :
        f.args.command \in {"plugin:mcp-bridge|start_ipc_monitor",
                            "plugin:mcp-bridge|stop_ipc_monitor"}}

\* The IPC monitor under concurrent callers: two connections start and
\* stop it, and the handler of each runs statement by statement while the
\* other one runs.  Every eval succeeds and the window stays open.
ConcNext ==
    \/ \E c \in Conns : Accept(c)
    \/ \E c \in Conns, f \in StartStopFrames : ReadFrame(c, f)
    \/ \E c \in Conns : StartLock(c)
    \/ \E c \in Conns : StartEval(c, TRUE)
    \/ \E c \in Conns : StopEval(c, TRUE)
    \/ \E c \in Conns : Resume(c)

ConcSpec == Init /\ [][ConcNext]_vars

\* The registrations and removals of one script id in the window that is
\* taken when none is named.
ScriptFrames ==
    {f \in DomFrames :
        /\ f.command \in {"register_script", "remove_script"}
        /\ f.args.id = PlainId
        /\ ~Has(f.args, "windowLabel")}

\* The registry and the document of one window under concurrent callers:
\* two connections register and remove the same script id, and the handler
\* of each changes the registry, drops the guard and then changes the
\* document, while the other one runs.
ConcDomNext ==
    \/ \E c \in Conns : Accept(c)
    \/ \E c \in Conns, f \in ScriptFrames : ReadFrame(c, f)
    \/ \E c \in Conns : RegisterAdd(c)
    \/ \E c \in Conns : RemoveEntry(c)
    \/ \E c \in Conns : Resume(c)

ConcDomSpec == Init /\ [][ConcDomNext]_vars

TypeOK ==
    /\ \A c \in Conns : rpc[c] \in {"new", "open", "done", "panicked"}
    /\ \A c \in Conns : wpc[c] \in {"none", "select", "ended", "aborted"}
    /\ \A c \in Conns : cursor[c] \in 0..Len(chan)

\* ------------------------------------------------------ derived histories
\* The JSON requests read on a connection, in the order they were read.
Requests(c) == SelectSeq(rlog[c], LAMBDA f : f.kind = "text" /\ f.json)

\* Their ids, as dispatch_command extracts them.
ReqIds(c) == [i \in 1..Len(Requests(c)) |-> IdOf(Requests(c)[i])]

\* The ids of the responses written to a connection's peer.
RespIds(c) == [i \in 1..Len(outR[c]) |-> outR[c][i].body.id]

\* Position in rlog[c] of the k-th JSON request.
RECURSIVE ReqPos(_, _, _)
ReqPos(c, k, from) ==
    IF rlog[c][from].kind = "text" /\ rlog[c][from].json
    THEN IF k = 1 THEN from ELSE ReqPos(c, k - 1, from + 1)
    ELSE ReqPos(c, k, from + 1)

\* The elements of a sequence.
Range(q) == {q[i] : i \in DOMAIN q}

\* The transport of a connection is up in both directions.
ConnAlive(c) == rpc[c] = "open" /\ WriterAlive(c)

\* Nothing of the connection is in progress: no dispatch, no queued
\* response.
Quiescent(c) ==
    ConnAlive(c) /\ inflight[c] = <<>> /\ respq[c] = <<>>

\* The responses a connection's send task holds or has written.
HeldResponses(c) == Range(respq[c]) \cup Range(outR[c])

\* The broadcasts written to a connection's peer.
TakenEvents(c) == Range(outE[c])

\* A broadcast the channel never stored: it was sent to no receiver.
Dropped == {n \in 1..nsent : n \notin Range(chan)}

\* ------------------------------------------------------------------ claims

\* C1: on every connection the ids of the responses written so far are, in
\* order, the ids of the first requests read on it: responses are never
\* reordered relative to their requests, whatever broadcasts are written.
C1_ResponseOrder ==
    \A c \in Conns :
        /\ Len(RespIds(c)) <= Len(ReqIds(c))
        /\ RespIds(c) = SubSeq(ReqIds(c), 1, Len(RespIds(c)))

\* C1 witness: two responses with different ids and a broadcast have been
\* written to one connection.
C1_Witness ==
    \E c \in Conns :
        /\ Len(outR[c]) = 2
        /\ outR[c][1].body.id # outR[c][2].body.id
        /\ outE[c] # <<>>

\* C2: the k-th response written to a connection answers the k-th request
\* read on it, with its id (so no request has two responses); a queued
\* response can always be taken by the send task; and once a live connection
\* has nothing in progress every request read on it has its response.
C2_ExactlyOneResponse ==
    \A c \in Conns :
        /\ Len(outR[c]) <= Len(Requests(c))
        /\ \A k \in 1..Len(outR[c]) :
               /\ outR[c][k].src = c
               /\ outR[c][k].idx = ReqPos(c, k, 1)
               /\ outR[c][k].body.id = IdOf(Requests(c)[k])
        /\ (ConnAlive(c) /\ inflight[c] # <<>>) =>
               ENABLED DispatchDone(c)
        /\ (wpc[c] = "select" /\ respq[c] # <<>>) =>
               ENABLED WriterSendResponse(c, TRUE)
        /\ Quiescent(c) => Len(outR[c]) = Len(Requests(c))

\* C2 witness: a live connection at rest has read two requests and written
\* the two responses.
C2_Witness ==
    \E c \in Conns : Quiescent(c) /\ Len(Requests(c)) = 2 /\ Len(outR[c]) = 2

\* C3 (as claimed): once the send task has ended on a write failure, the
\* reader of that connection reads no further frame into dispatch.
C3_ReaderStopsAfterWriteFailure ==
    [][\A c \in Conns : wpc[c] = "ended" => rlog'[c] = rlog[c]]_vars

\* C4: a step that reads a text frame that is not JSON changes nothing but
\* the input consumed: no response is queued or written, both halves of the
\* connection stay as they were, and the reader is back at reading.
C4_BadFrameIgnored ==
    [][\A c \in Conns :
          rlog'[c] = Append(rlog[c], BadTextFrame) =>
              /\ UNCHANGED <<rpc, inflight, respq, wpc, evOff, cursor,
                             chan, nsent, subAt, lagged, outR, outE>>
              /\ rpc'[c] = "open" /\ inflight'[c] = <<>>]_vars

\* C4 witness: a connection read a non-JSON frame, then a request, and has
\* written exactly the response to that request.
C4_Witness ==
    \E c \in Conns :
        /\ Len(rlog[c]) = 2
        /\ rlog[c][1] = BadTextFrame
        /\ rlog[c][2] \in RequestFrames
        /\ Len(outR[c]) = 1
        /\ outR[c][1].idx = 2

\* C5: a connection has at most one request in dispatch, and it reads a
\* frame (a closing one included) only when none is.
C5_SequentialDispatch ==
    [][\A c \in Conns :
          /\ Len(inflight'[c]) <= 1
          /\ (rlog'[c] # rlog[c] \/ (rpc[c] = "open" /\ rpc'[c] = "done")) =>
                 inflight[c] = <<>>]_vars

\* C5 witness: a connection dispatches its second request after the first
\* one was answered.
C5_Witness ==
    \E c \in Conns :
        Len(Requests(c)) = 2 /\ Len(inflight[c]) = 1 /\ Len(outR[c]) = 1

\* C6: every response a connection's send task holds or has written answers
\* a request read on that connection, while a broadcast that is sent becomes
\* the newest message of every subscribed connection.
C6_ResponsesStayHome ==
    [][/\ \A c \in Conns : \A m \in HeldResponses(c)' : m.src = c
       /\ (nsent' = nsent + 1 /\ Receivers # {}) =>
              /\ chan' = Append(chan, nsent')
              /\ \A c \in Receivers : cursor'[c] < Len(chan')]_vars

\* C6 witness: both connections have their own response and both have been
\* written the same broadcast.
C6_Witness ==
    /\ \A c \in Conns : outR[c] # <<>>
    /\ \E n \in 1..nsent : \A c \in Conns : n \in Range(outE[c])

\* C7: a connection is only written broadcasts sent after it subscribed, and
\* a broadcast sent to no receiver reaches no connection.
C7_NoReplay ==
    \A c \in Conns :
        /\ \A n \in TakenEvents(c) : n > subAt[c]
        /\ \A n \in Dropped : n \notin TakenEvents(c)

\* C7 witness: the first broadcast was sent to no receiver, and a connection
\* that subscribed afterwards has been written a later one.
C7_Witness ==
    /\ 1 \in Dropped
    /\ \E c \in Conns : subAt[c] >= 1 /\ outE[c] # <<>>

\* C8: the broadcasts written to a connection are in sending order without
\* repetition; while the connection has not overrun its backlog they are
\* exactly the first ones sent since it subscribed, none skipped, and a
\* message waiting for it can be taken whatever the other connections do.
C8_EveryBroadcastOnce ==
    \A c \in Conns :
        /\ \A i, j \in 1..Len(outE[c]) : i < j => outE[c][i] < outE[c][j]
        /\ ~lagged[c] =>
               /\ outE[c] = [i \in 1..Len(outE[c]) |-> subAt[c] + i]
               /\ (wpc[c] = "select" /\ cursor[c] < Len(chan)
                       /\ cursor[c] >= OldestRetained) =>
                      ENABLED WriterSendEvent(c, TRUE)

\* C8 witness: both connections have been written every broadcast.
C8_Witness ==
    /\ nsent = MaxBroadcasts
    /\ \A c \in Conns : ~lagged[c] /\ Len(outE[c]) = MaxBroadcasts

\* C9: when a receiver has overrun its backlog it loses exactly its oldest
\* unread messages (the newest Capacity ones are kept), nothing changes for
\* the other connections, and the producers can send whatever state the
\* consumers are in.
C9_SlowConsumer ==
    [][/\ nsent < MaxBroadcasts => ENABLED Broadcast
       /\ \A c \in Conns :
              (~evOff[c] /\ evOff'[c]) =>
                  /\ cursor[c] < Len(chan) - Capacity
                  /\ cursor'[c] = Len(chan) - Capacity
                  /\ \A d \in Conns \ {c} :
                         /\ cursor'[d] = cursor[d]
                         /\ outE'[d] = outE[d]
                         /\ wpc'[d] = wpc[d]]_vars

\* C9 witness: one connection has lost a message while stalled, and the
\* other one has been written every broadcast.
C9_Witness ==
    \E c, d \in Conns :
        /\ lagged[c] /\ ~lagged[d]
        /\ Len(outE[d]) = MaxBroadcasts

C11_DisconnectAbortsDispatch ==
    \A c \in Conns :
        (rpc[c] = "open" /\ inflight[c] # <<>> /\ nread < MaxFrames) =>
            ENABLED ReadFrame(c, CloseFrame)

\* C12 (as claimed): whatever has failed so far, the next peer that connects
\* can be accepted, and every open connection that is between two requests
\* can read its next frame.
C12_NothingFatal ==
    /\ \A c \in Conns : NextConn(c) => ENABLED Accept(c)
    /\ \A c \in Conns :
           (rpc[c] = "open" /\ inflight[c] = <<>> /\ nread < MaxFrames) =>
               \A f \in RequestFrames : ENABLED ReadFrame(c, f)

\* C13: when the dispatch of a request whose command is not in the dispatch
\* table returns, the response queued for the peer is the error response
\* that carries the id of the request and names the command, nothing of the
\* shared state has changed, and the connection is open with its reader
\* ready for the next frame.
C13_UnknownCommand ==
    [][\A c \in Conns :
          (rpc[c] = "open" /\ inflight[c] # <<>> /\ inflight'[c] = <<>>
               /\ Head(inflight[c]).command \notin DispatchTable) =>
              LET f == Head(inflight[c])
              IN  /\ rpc'[c] = "open" /\ wpc'[c] = wpc[c]
                  /\ UNCHANGED appvars
                  /\ WriterAlive(c) =>
                         /\ Len(respq'[c]) = Len(respq[c]) + 1
                         /\ LET b == respq'[c][Len(respq'[c])].body
                            IN  /\ ~b.success
                                /\ b.id = f.id
                                /\ b.error = "Unknown command: " \o f.command]_vars

\* C13 witness: a connection was written the error response to an unknown
\* command and then the successful response to a later request.
C13_Witness ==
    \E c \in Conns :
        /\ Len(outR[c]) = 2
        /\ ~outR[c][1].body.success /\ outR[c][1].body.id = "b"
        /\ outR[c][2].body.success

\* The names under which the monitor's own commands are invoked.
OwnNames ==
    {<<p>> : p \in ControlCommands} \cup
    {<<"plugin:mcp-bridge|", p>> : p \in ControlCommands}

\* A webview's invocation of a command has just returned Ok.
ReturnedOk(cmd) == ret'.cmd = cmd /\ ret'.ok

\* C14: a start that gets the monitor leaves it enabled with no events,
\* whatever it held before; a stop that gets the monitor leaves it disabled
\* with the events it held, in their order.
C14_StartClearsStopRetains ==
    [][/\ (\E w \in WindowLabels, e \in BOOLEAN : InvokeStart(w, e))
              /\ ReturnedOk("start_ipc_monitor") =>
               monitor' = [enabled |-> TRUE, events |-> <<>>]
       /\ (\E w \in WindowLabels, e \in BOOLEAN : InvokeStop(w, e))
              /\ ReturnedOk("stop_ipc_monitor") =>
               monitor' = [enabled |-> FALSE, events |-> monitor.events]]_vars

\* C14 witness: after a start, MaxEvents recorded events and a stop, the
\* query has returned these events in the order of their arrival.
C14_Witness ==
    /\ ret.cmd = "get_ipc_events" /\ ret.ok
    /\ ~monitor.enabled
    /\ Len(ret.data) = MaxEvents
    /\ ret.data[1].command = <<"greet">>
    /\ ret.data[MaxEvents].command = <<"add_numbers">>

\* C15: the event sequence grows only while the monitor is enabled; a
\* report that reaches the monitor (its command passes the filter and the
\* mutex can be taken) returns Ok and appends the event at the end, the
\* earlier events kept, when the monitor is enabled, and returns Ok and
\* changes nothing when it is not.
C15_RecordOnlyWhileMonitoring ==
    [][/\ Len(monitor'.events) > Len(monitor.events) => monitor.enabled
       /\ \A command \in ReportedCommands :
              (InvokeReport(command) /\ ~IsOwnCommand(command)
                                     /\ ~monPoisoned) =>
                  /\ ReturnedOk("report_ipc_event")
                  /\ monitor' = IF monitor.enabled
                                THEN [monitor EXCEPT !.events =
                                         Append(@, [command |-> command])]
                                ELSE monitor]_vars

\* C15 witness: a report made while the monitor was stopped has returned Ok
\* and the events recorded before the stop are all the monitor holds.
C15_Witness ==
    /\ ret.cmd = "report_ipc_event" /\ ret.ok
    /\ ~monitor.enabled
    /\ Len(monitor.events) = 1

\* C16: after every step the monitor holds no event whose command is one of
\* its own, and a report of such a command returns Ok and leaves the monitor
\* as it was, enabled or not, the mutex poisoned or not.
C16_SelfFilter ==
    [][/\ \A i \in DOMAIN monitor'.events :
              monitor'.events[i].command \notin OwnNames
       /\ \A command \in ReportedCommands \cap OwnNames :
              InvokeReport(command) =>
                  ReturnedOk("report_ipc_event") /\ monitor' = monitor]_vars

\* C16 witness: the monitor is enabled and holds an event, and the last
\* report, which returned Ok, added nothing to it.
C16_Witness ==
    /\ ret.cmd = "report_ipc_event" /\ ret.ok
    /\ monitor.enabled
    /\ Len(monitor.events) = 1
    /\ ENABLED InvokeReport(<<"start_ipc_monitor">>)

\* C17: a query that gets the monitor returns Ok with all the events the
\* monitor holds, in order, whether it is enabled or not, and changes
\* neither the flag nor the events nor the hook.
C17_QueryReturnsAll ==
    [][(InvokeGetEvents /\ ~monPoisoned) =>
           /\ ReturnedOk("get_ipc_events")
           /\ ret'.data = monitor.events
           /\ monitor' = monitor
           /\ hook' = hook]_vars

\* C17 witness: a query made while the monitor was stopped has returned the
\* events recorded before the stop.
C17_Witness ==
    /\ ret.cmd = "get_ipc_events" /\ ret.ok
    /\ ~monitor.enabled
    /\ ret.data # <<>>
    /\ ret.data = monitor.events

\* The reader of c has just finished the dispatch of the request f.
Dispatched(c, f) ==
    /\ rpc[c] = "open"
    /\ inflight[c] # <<>>
    /\ Head(inflight[c]) = f
    /\ inflight'[c] = <<>>

\* The reader of c goes on and an error response for f with the text e is
\* the last one queued for its writer.
AnsweredError(c, f, e) ==
    /\ rpc'[c] = "open"
    /\ wpc'[c] = wpc[c]
    /\ Len(respq'[c]) = Len(respq[c]) + 1
    /\ LET b == respq'[c][Len(respq'[c])].body
       IN  ~b.success /\ b.id = f.id /\ b.error = e

\* C18: while the monitor's mutex cannot be taken no step changes the
\* monitor; a report that reaches the lock returns the "Lock error" string;
\* a start, stop or query sent over a connection is answered with that
\* string as an error response for its request and the connection goes on
\* reading.
C18_MonitorLockFailure ==
    [][monPoisoned =>
          /\ monitor' = monitor
          /\ monPoisoned'
          /\ \A command \in ReportedCommands :
                 (InvokeReport(command) /\ ~IsOwnCommand(command)) =>
                     ret' = Returned("report_ipc_event", CmdErr(LockError))
          /\ \A c \in Conns, f \in MonFrames :
                 (/\ Dispatched(c, f)
                  /\ WriterAlive(c)
                  /\ (windows # {}
                        \/ f.args.command = "plugin:mcp-bridge|get_ipc_events"))
                     => AnsweredError(c, f, LockError)]_vars

\* C18 witness: two requests made after the mutex was poisoned have both
\* been answered with the lock error, the second one a query.
C18_Witness ==
    /\ monPoisoned
    /\ Len(outR[AppConn]) = 2
    /\ outR[AppConn][1].body.error = LockError
    /\ outR[AppConn][2].body.id = "m3"
    /\ outR[AppConn][2].body.error = LockError
    /\ rpc[AppConn] = "open"

\* The requests of RegFrames that take the registry's mutex.
RegistryFrames ==
    {f \in RegFrames : f.command \in {"register_script", "get_scripts"}}

\* C19, as claimed: while the registry's mutex cannot be taken, a request
\* that needs the registry is answered with an error response for that
\* request and the reader of its connection goes on reading.
C19_RegistryLockFailure ==
    [][regPoisoned =>
          \A c \in Conns, f \in RegistryFrames :
              (Dispatched(c, f) /\ WriterAlive(c)) =>
                  /\ rpc'[c] = "open"
                  /\ Len(respq'[c]) = Len(respq[c]) + 1
                  /\ LET b == respq'[c][Len(respq'[c])].body
                     IN  ~b.success /\ b.id = f.id]_vars

\* The elements of window w that carry the tag of script id.
Tagged(w, id) ==
    {i \in DOMAIN dom[w] : dom[w][i].tag = ScriptTag(id).val}

\* C20, as claimed: the registry holds at most one entry for an id, and no
\* window holds more than one script element tagged with an id.
C20_RegisterUpsert ==
    /\ \A i, j \in DOMAIN registry :
           registry[i].id = registry[j].id => i = j
    /\ \A w \in WindowLabels, id \in ScriptIds :
           Cardinality(Tagged(w, id)) <= 1

\* C30, as claimed: when the reader has ended on a close frame, an inbound
\* error or the end of the stream and has aborted a send task that never
\* failed to write, every request read on the connection has had its
\* response written to the peer.
C30_QueuedResponsesWritten ==
    \A c \in Conns :
        (rpc[c] = "done" /\ wpc[c] = "aborted") =>
            Len(outR[c]) = Len(Requests(c))

\* The response that the dispatch of a request has just queued.
Queued(c) == respq'[c][Len(respq'[c])].body

\* The reader of c has just queued the response to the request f.
Answered(c, f) ==
    /\ Dispatched(c, f)
    /\ WriterAlive(c)
    /\ rpc'[c] = "open"
    /\ Len(respq'[c]) = Len(respq[c]) + 1

\* The registry after the request f has changed it.
Mutated(reg, f) ==
    CASE f.command = "register_script" ->
            /\ \E i \in DOMAIN reg :
                   /\ reg[i].id = f.args.id
                   /\ reg[i].content = f.args.content
         [] f.command = "remove_script" ->
            \A i \in DOMAIN reg : reg[i].id # f.args.id
         [] OTHER -> reg = <<>>

\* C21, as claimed: a register, remove or clear request whose response
\* carries an error string is answered with success and with the data of
\* the registry change, and the registry keeps the change.
C21_DomFailureKeepsData ==
    [][\A c \in Conns, f \in DomFrames :
          (/\ f.command \in {"register_script", "remove_script",
                              "clear_scripts"}
           /\ Answered(c, f)
           /\ Queued(c).error # "") =>
              /\ Queued(c).success
              /\ Queued(c).data # <<>>
              /\ Mutated(registry', f)]_vars

\* C22: a remove request is never answered with an error response; its
\* data says removed exactly when the registry held the id; the registry
\* afterwards is the registry before without that entry, the other entries
\* in their order, whether or not the response carries an error string.
C22_RemoveReportsAndKeeps ==
    [][\A c \in Conns, f \in DomFrames :
          (f.command = "remove_script" /\ Answered(c, f)) =>
              /\ Queued(c).success
              /\ Queued(c).data =
                     <<[removed |-> \E i \in DOMAIN registry :
                                       registry[i].id = f.args.id,
                        scriptId |-> f.args.id]>>
              /\ registry' = SelectSeq(registry,
                                       LAMBDA e : e.id # f.args.id)]_vars

\* C22 witness: a remove that found the entry has been answered with
\* removed = true and an error string for the DOM, and the registry holds
\* the other entry only.
C22_Witness ==
    /\ Len(outR[AppConn]) = 3
    /\ outR[AppConn][3].body.id = "d4"
    /\ outR[AppConn][3].body.data = <<[removed |-> TRUE, scriptId |-> PlainId]>>
    /\ outR[AppConn][3].body.error # ""
    /\ Len(registry) = 1
    /\ registry[1].id = OtherId

\* C23, as claimed: after a clear request that is answered without an
\* error string the registry is empty and no window's document holds a
\* tagged script element.
C23_ClearRemovesEverywhere ==
    [][\A c \in Conns, f \in DomFrames :
          (/\ f.command = "clear_scripts"
           /\ Answered(c, f)
           /\ Queued(c).error = "") =>
              /\ registry' = <<>>
              /\ \A w \in WindowLabels : dom'[w] = <<>>]_vars

\* The script element that the injection of a registry entry creates.
ElementOf(e) ==
    [tag |-> ScriptTag(e.id).val, script_type |-> e.script_type,
     content |-> e.content]

\* C24: a replay whose target cannot be resolved returns an error and
\* changes no document; otherwise it changes the document of the target
\* only, and in a freshly loaded document it leaves the elements of the
\* first n registry entries in registry order: all of them when it returns
\* Ok with their count, fewer when it returns the injection error.
C24_ReplayInOrder ==
    [][\A label \in WindowLabels \cup {NoLabel} :
          InjectAll(label) =>
              IF windows = {} \/ (label # NoLabel /\ label \notin windows)
              THEN ~ret'.ok /\ dom' = dom
              ELSE \E w \in windows :
                      /\ label # NoLabel => w = label
                      /\ \A v \in WindowLabels \ {w} : dom'[v] = dom[v]
                      /\ dom[w] = <<>> =>
                            \E n \in 0..Len(registry) :
                               /\ dom'[w] = [i \in 1..n |->
                                                 ElementOf(registry[i])]
                               /\ ret'.ok <=> n = Len(registry)
                      /\ ret'.ok =>
                            ret'.data = <<[count |-> Len(registry)]>>
                      /\ ~ret'.ok =>
                            ret'.err = "Failed to inject script"]_vars

\* C24 witness: with two entries registered, a replay into the reloaded
\* page has failed at the second one and the document holds the element of
\* the first one only.
C24_Witness ==
    /\ ret.cmd = "inject_all_scripts" /\ ~ret.ok
    /\ Len(registry) = 2
    /\ registry[1].id = OtherId
    /\ dom["main"] = <<ElementOf(registry[1])>>

\* C25: a request that runs a script is answered for exactly one target or
\* with an error.  With a label: the window of that label, without warning,
\* or an error when no window has the label.  Without a label: an error
\* when there is no window, else one of the windows, with the warning
\* exactly when there are two or more.  totalWindows is the number of
\* windows at that time.
C25_WindowResolution ==
    [][\A c \in Conns, f \in HostFrames :
          (f.command = "execute_js" /\ Answered(c, f)) =>
              LET b == Queued(c)
                  n == Cardinality(windows)
              IN  IF Has(f.args, "windowLabel")
                  THEN IF f.args.windowLabel \in windows
                       THEN b.windowContext =
                                [windowLabel |-> f.args.windowLabel,
                                 totalWindows |-> n, warning |-> FALSE]
                       ELSE /\ ~b.success /\ b.error # ""
                            /\ b.windowContext = NoContext
                  ELSE IF n = 0
                       THEN /\ ~b.success /\ b.error # ""
                            /\ b.windowContext = NoContext
                       ELSE /\ b.windowContext.windowLabel \in windows
                            /\ b.windowContext.totalWindows = n
                            /\ b.windowContext.warning = (n > 1)]_vars

\* C25 witness: a request with a label that no window had has been
\* answered with an error, and a request without a label has been answered
\* for one of two windows, with the warning.
C25_Witness ==
    /\ Len(outR[AppConn]) = 2
    /\ outR[AppConn][1].body.id = "x2"
    /\ ~outR[AppConn][1].body.success
    /\ outR[AppConn][2].body.id = "x1"
    /\ outR[AppConn][2].body.windowContext.warning
    /\ outR[AppConn][2].body.windowContext.totalWindows = 2

\* C29: an invoke_tauri request without args or without a nested command,
\* or with a nested command that is not on the allow-list, is answered
\* with an error response for its id (naming the nested command in the
\* last case), carries no data of a host operation, and leaves the monitor,
\* the registry, the documents and the windows as they were.
C29_InvokeAllowList ==
    [][\A c \in Conns, f \in HostFrames :
          (f.command = "invoke_tauri" /\ Answered(c, f)) =>
              LET b == Queued(c)
              IN  IF ~Has(f, "args")
                  THEN /\ ~b.success /\ b.id = f.id /\ b.data = <<>>
                       /\ b.error = "Missing args for invoke_tauri"
                       /\ UNCHANGED appvars
                  ELSE IF ~Has(f.args, "command")
                  THEN /\ ~b.success /\ b.id = f.id /\ b.data = <<>>
                       /\ b.error = "Missing command in args"
                       /\ UNCHANGED appvars
                  ELSE f.args.command \notin InvokeAllowList =>
                       /\ ~b.success /\ b.id = f.id /\ b.data = <<>>
                       /\ b.error = "Unsupported Tauri command: "
                                        \o f.args.command
                       /\ UNCHANGED appvars]_vars

\* C29 witness: a nested command that is not on the allow-list has been
\* refused by name and a nested command that is on it has been proxied.
C29_Witness ==
    /\ Len(outR[AppConn]) = 2
    /\ outR[AppConn][1].body.id = "i2"
    /\ outR[AppConn][1].body.error =
           "Unsupported Tauri command: plugin:mcp-bridge|register_script"
    /\ outR[AppConn][2].body.id = "i1"
    /\ outR[AppConn][2].body.success

\* The last screenshot call and the data URL it returned.
Shot == ret.cmd = "capture_native_screenshot"
ShotUrl == ret.data[1]

\* C26, as claimed: a JPEG screenshot is reported as successful only when
\* no step of the pipeline failed, i.e. when the captured bytes could be
\* decoded and the JPEG encoder worked (every JPEG request decodes the
\* captured bytes and encodes a JPEG, in the resize or in the conversion).
C26_PipelineFailureIsError ==
    (Shot /\ ret.ok /\ ret.call.format = Some("jpeg")) =>
        /\ ret.call.captured.data.fmt # "bad"
        /\ ret.call.jpegOk

\* C27, as claimed: with an explicit maxWidth M and a PNG source of W x H
\* that is returned as PNG, the image of a successful screenshot is M wide
\* and round(H * M / W) high when W > M, and is the source when W <= M.
C27_ResizeExact ==
    (/\ Shot /\ ret.ok
     /\ ret.call.max_width.some
     /\ ret.call.format # Some("jpeg")
     /\ ret.call.captured.data.fmt = "png") =>
        LET W == ret.call.captured.data.width
            H == ret.call.captured.data.height
            M == ret.call.max_width.val
        IN  IF W > M
            THEN /\ ShotUrl.image.width = M
                 /\ ShotUrl.image.height = (2 * H * M + W) \div (2 * W)
            ELSE ShotUrl.image = ret.call.captured.data

\* The number that a value of the environment variable stands for.
DeclaredWidth(envv) ==
    CASE envv = [set |-> TRUE, val |-> <<"2">>] -> Some(2)
      [] envv = [set |-> TRUE, val |-> <<"+", "4">>] -> Some(4)
      [] OTHER -> None

\* The maxWidth in effect, in the order of the claim.
ExpectedMaxWidth ==
    IF ret.call.max_width.some THEN ret.call.max_width
    ELSE DeclaredWidth(ret.call.envv)

\* C28: the image of a successful screenshot is the captured one, in size,
\* when no maxWidth is in effect or the captured image is not wider than
\* it, and is a smaller image of at most that width otherwise; the maxWidth
\* in effect is the parameter of the call when there is one, else the
\* number in the environment variable when it holds one, else none.
C28_EffectiveMaxWidth ==
    (Shot /\ ret.ok /\ ret.call.captured.data.fmt = "png") =>
        LET W == ret.call.captured.data.width
            H == ret.call.captured.data.height
        IN  IF ExpectedMaxWidth.some /\ W > ExpectedMaxWidth.val
            THEN /\ ShotUrl.image.width <= ExpectedMaxWidth.val
                 /\ ShotUrl.image.width < W
            ELSE /\ ShotUrl.image.width = W
                 /\ ShotUrl.image.height = H

\* C28 witness: a call with maxWidth 3, made while the environment asks
\* for 2, has returned an image 3 wide from one 4 wide.
C28_Witness ==
    /\ Shot /\ ret.ok
    /\ ret.call.max_width = Some(3)
    /\ ret.call.envv = [set |-> TRUE, val |-> <<"2">>]
    /\ ret.call.captured.data = Image("png", 4, 4)
    /\ ShotUrl.image.width = 3

\* C31 (as claimed): a send task that has overrun its backlog goes on by
\* itself: whenever it is alive and the channel retains a message it has
\* not taken, it can write that message, whether or not a response is
\* produced on its connection.
C31_WriterResumesAfterLag ==
    \A c \in Conns :
        (lagged[c] /\ wpc[c] = "select" /\ cursor[c] >= OldestRetained
             /\ cursor[c] < Len(chan)) =>
            ENABLED WriterSendEvent(c, TRUE)

\* C34 (as claimed): while the monitor is enabled and its mutex can be
\* taken, a report of a command that is not one of the monitor's own is
\* appended to the events, also when the name of one of the monitor's
\* commands is a part of its name.
C34_FilterOnlyOwnCommands ==
    [][\A command \in ReportedCommands \ OwnNames :
           (InvokeReport(command) /\ monitor.enabled /\ ~monPoisoned) =>
               monitor'.events = Append(monitor.events,
                                        [command |-> command])]_vars

\* C35: when the application has no window, a start or a stop sent over a
\* connection is answered with the error "No window available" and changes
\* neither the monitor nor the interception, whether the mutex is poisoned
\* or not; a query that can take the mutex is answered with the events the
\* monitor holds and changes nothing.
C35_NoWindowNoStartStop ==
    [][\A f \in MonFrames :
           (Dispatched(AppConn, f) /\ WriterAlive(AppConn) /\ windows = {}) =>
               IF f.args.command = "plugin:mcp-bridge|get_ipc_events"
               THEN ~monPoisoned =>
                        /\ Len(respq'[AppConn]) = Len(respq[AppConn]) + 1
                        /\ LET b == respq'[AppConn][Len(respq'[AppConn])].body
                           IN  /\ b.success /\ b.id = f.id
                               /\ b.data = monitor.events
                        /\ monitor' = monitor
                        /\ hook' = hook
               ELSE /\ AnsweredError(AppConn, f, "No window available")
                    /\ monitor' = monitor
                    /\ hook' = hook]_vars

\* C35 witness: the monitor was started and has recorded an event; after
\* the last window has closed a stop has been answered with "No window
\* available" and a query with the recorded event, and the monitor is still
\* enabled.
C35_Witness ==
    /\ windows = {}
    /\ monitor.enabled
    /\ monitor.events # <<>>
    /\ Len(outR[AppConn]) = 3
    /\ outR[AppConn][2].body.id = "m2"
    /\ outR[AppConn][2].body.error = "No window available"
    /\ outR[AppConn][3].body.id = "m3"
    /\ outR[AppConn][3].body.success
    /\ outR[AppConn][3].body.data = monitor.events

\* C36: when the platform has captured a PNG image, the data URL of a
\* successful screenshot says image/jpeg or image/png, image/jpeg exactly
\* when the image it holds is encoded as JPEG and image/png exactly when it
\* is encoded as PNG, whatever format was asked for, whether the image was
\* resized and whether the encoders worked.
C36_MimeNamesEncoding ==
    (Shot /\ ret.ok /\ ret.call.captured.data.fmt = "png") =>
        /\ ShotUrl.mime \in {"image/jpeg", "image/png"}
        /\ ShotUrl.mime = "image/jpeg" <=> ShotUrl.image.fmt = "jpeg"
        /\ ShotUrl.mime = "image/png" <=> ShotUrl.image.fmt = "png"

\* C36 witness: a JPEG was asked for, the image needed no resize and the
\* JPEG encoder failed: the call has returned the captured PNG as
\* image/png.
C36_Witness ==
    /\ Shot /\ ret.ok
    /\ ret.call.format = Some("jpeg")
    /\ ~ret.call.jpegOk
    /\ ret.call.captured.data = Image("png", 2, 2)
    /\ ret.call.max_width = Some(3)
    /\ ShotUrl = [mime |-> "image/png", image |-> Image("png", 2, 2)]

\* C33 (as claimed): when every start and stop that the connections have
\* sent has run to its end, the interception is switched on in the window
\* if and only if the monitor is enabled (every eval has succeeded and the
\* window has stayed open).
C33_HookFollowsEnabled ==
    (\A c \in Conns : inflight[c] = <<>>) =>
        (hook # {} <=> monitor.enabled)

\* C32 (as claimed): when every registration and removal of the script id
\* that the connections have sent has run to its end and none was answered
\* with an error, the window holds a script element tagged with the id if
\* and only if the registry holds an entry for it, and the element is the
\* one that the injection of that entry creates.
C32_RegistryAndDomAgree ==
    (\A c \in Conns :
        /\ inflight[c] = <<>>
        /\ \A i \in DOMAIN respq[c] :
               respq[c][i].body.success /\ respq[c][i].body.error = "") =>
        /\ Tagged("main", PlainId) # {} <=>
               \E i \in DOMAIN registry : registry[i].id = PlainId
        /\ \A i \in DOMAIN registry, j \in Tagged("main", PlainId) :
               registry[i].id = PlainId =>
                   dom["main"][j] = ElementOf(registry[i])

====
